---- MODULE Spec2Model ----
(***************************************************************************)
(* BioValue-AI durable orchestration layer: the main workflow             *)
(* (BioValueWorkflow), its signal listener coroutine, the per-drug fan-out *)
(* and fan-in, the aggregation helpers, the error classifier and the Saga  *)
(* compensator.                                                            *)
(*                                                                         *)
(* A workflow coroutine runs without interruption from one suspension      *)
(* point (Select, Get, Await, Receive) to the next, so every action below  *)
(* is one such segment of the Go code.  A selector hands the main          *)
(* coroutine its futures in the order in which their completion events     *)
(* enter the history, so the conclusion of an activity or child and the    *)
(* selector callback it triggers form one step.                            *)
(***************************************************************************)
EXTENDS Integers, Sequences, FiniteSets, TLC

\* ------------------------------------------------------------------ bounds
\* Longest pipeline sequence the scout returns in FlowSpec.
MaxDrugs == 2
\* Longest pipeline sequence the scout returns in Spec (the signal runs).
SignalDrugs == 1
\* Number of human-intervention signals the operator sends in Spec.
MaxSignals == 3
\* Number of AddCompensation calls in SagaSpec.
MaxSteps == 3
\* Number of activity executions started in CacheSpec.
MaxExecs == 2
\* Number of cache operations that return an error in CacheSpec.
MaxFaults == 1
\* Number of times stored bytes are replaced in CacheSpec.
MaxCorruptions == 1
\* The hour at which the clock stops in CacheSpec.
CacheClock == 13
\* Number of human-intervention signals the operator sends in ReplaySpec.
ReplaySignals == 2
\* Longest pipeline sequence the scout answers with in ReplaySpec, under the
\* operator's signals and left alone.
ReplaySignalDrugs == 1
ReplayDrugs == 2
\* Longest pipeline sequence the scout answers with in CrashSpec.
CrashDrugs == 2
\* Number of times the worker is killed in CrashSpec.
MaxCrashes == 1
\* How much later than the last event of the history a worker replays it.
MaxDelay == 1
\* Signals, longest pipeline sequence and progress queries in QuerySpec.
QuerySignals == 2
QueryDrugs == 1
MaxQueries == 2
MaxChain == 3
FreshClock == 31
FreshExecs == 2
MaxSegments == 2

\* ------------------------------------------------------------------ inputs
DrugNames == {"X", "Y"}
Revenues == {1, 2}
SignalTypes == {"pause", "resume", "cancel", "modify"}
StepNames == {"a", "b", "c"}
ErrorKinds == {"timeout", "rate_limited", "cache_unavailable", "validation_failed",
               "hallucination", "llm_unavailable", "tool_failed", "config_invalid",
               "auth_failed", "other"}
\* Errors the valuation child is made to fail with: one of each level and one
\* the classifier does not recognise.
ValuationErrors == {"timeout", "validation_failed", "config_invalid", "other"}

VARIABLES
    wf,          \* the main coroutine: position and closure variables
    saga,        \* the SagaCompensation instance and the position of Execute
    isPaused,    \* the pause flag shared by the listener and the main coroutine
    listener,    \* the signal listener coroutine: "running" or "exited"
    signalChan,  \* human-intervention signals delivered and never received
    signalsLeft, \* signals the operator may still send
    pauseRun,    \* history: consecutive pause signals processed up to now
    resumedFrom, \* history: the pauseRun a resume, processed last, has ended
    scoutLimit,  \* longest pipeline sequence the scout may answer with
    sub,         \* one PipelineAnalysisWorkflow and what its parent made of it
    cache,       \* the key/value store: key -> bytes and expiry
    execs,       \* the activity executions in flight
    inferred,    \* history: the collaborator calls that produced an artifact
    last,        \* history: the activity execution that concluded last
    quota,       \* the artifact under study and what the environment may still do
    hist,        \* the event history of the main workflow, when it is recorded
    recording,   \* whether the event history is recorded
    crashesLeft, \* worker crashes still to come
    crashedAt,   \* history: the length of hist at the last worker crash, or 0
    clock,       \* the wall clock, in hours
    clockLimit,  \* the hour at which the clock stops
    queriesLeft, \* progress queries the client may still send
    lastErr,     \* the error at hand, as the chain errors.Unwrap walks
    classified,  \* the last call of the classifier and what it returned
    act,         \* one activity under a retry policy: attempts and last error
    actuary,     \* one execution of the valuation activity and what is recorded
    keyPair      \* two artifacts and the cache keys formatted for them

workflowVars == <<wf, saga, isPaused, listener, signalChan, signalsLeft, pauseRun,
                  resumedFrom, scoutLimit>>
cacheVars == <<cache, execs, inferred, last, quota>>
replayVars == <<hist, recording, crashesLeft, crashedAt>>
clockVars == <<clock, clockLimit>>
queryVars == <<queriesLeft>>
errorVars == <<lastErr, classified>>
retryVars == <<act>>
actuaryVars == <<actuary>>
keyVars == <<keyPair>>
vars == <<workflowVars, sub, cacheVars, replayVars, clockVars, queryVars, errorVars, retryVars, actuaryVars, keyVars>>

\* ----------------------------------------------------------------- helpers
RECURSIVE SeqsUpTo(_, _)
SeqsUpTo(S, n) ==
    IF n = 0 THEN {<<>>}
    ELSE LET shorter == SeqsUpTo(S, n - 1)
         IN  shorter \cup {Append(q, x) : q \in {r \in shorter : Len(r) = n - 1}, x \in S}

Range(q) == {q[i] : i \in 1..Len(q)}

RECURSIVE SumRevenue(_)
SumRevenue(q) == IF q = <<>> THEN 0 ELSE Head(q).rev + SumRevenue(Tail(q))

Step(name) == <<name>>
DrugStep(drug) == <<"PipelineAnalysis", drug>>
Call(name, idx) == [name |-> name, idx |-> idx]

\* ------------------------------------------------------- error classifier
L1Recoverable == 1
L2Intervention == 2
L3Fatal == 3

ClassifyError(kind) ==
    CASE kind = "timeout" -> L1Recoverable
      [] kind = "rate_limited" -> L1Recoverable
      [] kind = "cache_unavailable" -> L1Recoverable
      [] kind = "validation_failed" -> L2Intervention
      [] kind = "hallucination" -> L2Intervention
      [] kind = "llm_unavailable" -> L1Recoverable
      [] kind = "tool_failed" -> L1Recoverable
      [] kind \in {"config_invalid", "auth_failed"} -> L3Fatal
      [] OTHER -> L1Recoverable

\* Errors that have no predefined error value in the errors package.
UnlistedKinds == {"business_rule_violation", "data_corruption"}
AllKinds == ErrorKinds \cup UnlistedKinds
Levels == {L1Recoverable, L2Intervention, L3Fatal}

\* An error is the chain that errors.Unwrap walks, outermost first: layers of
\* fmt.Errorf("...: %w", err), ClassifiedError values (Unwrap gives Cause) and,
\* innermost, one error value of the given kind.  nil is the empty chain.
Layer(t, kind, level, code, retryable, maxRetries) ==
    [t |-> t, kind |-> kind, Level |-> level, Code |-> code,
     Retryable |-> retryable, MaxRetries |-> maxRetries]
ErrorValue(kind) == <<Layer("value", kind, 0, "", FALSE, 0)>>
Errorf(e) == <<Layer("wrap", "", 0, "", FALSE, 0)>> \o e
ClassifiedError(level, code, retryable, maxRetries, cause) ==
    <<Layer("classified", "", level, code, retryable, maxRetries)>> \o cause

FirstClassified(e) == CHOOSE i \in 1..Len(e) :
    /\ e[i].t = "classified"
    /\ \A j \in 1..(i - 1) : e[j].t # "classified"

\* errors.As(err, &classifiedErr): the first ClassifiedError of the chain.
errorsAs(e) ==
    IF \E i \in 1..Len(e) : e[i].t = "classified"
        THEN SubSeq(e, FirstClassified(e), Len(e))
        ELSE <<>>

\* errors.Is(err, target) for the predefined value of a kind.
errorsIs(e, kind) == \E i \in 1..Len(e) : e[i].t = "value" /\ e[i].kind = kind

\* The switch of ClassifyError on an error that holds no ClassifiedError.
ClassifySwitch(e) ==
    CASE errorsIs(e, "timeout") ->
             ClassifiedError(L1Recoverable, "TIMEOUT", TRUE, 3, e)
      [] errorsIs(e, "rate_limited") ->
             ClassifiedError(L1Recoverable, "RATE_LIMITED", TRUE, 5, e)
      [] errorsIs(e, "cache_unavailable") ->
             ClassifiedError(L1Recoverable, "CACHE_UNAVAILABLE", TRUE, 3, e)
      [] errorsIs(e, "validation_failed") ->
             ClassifiedError(L2Intervention, "VALIDATION_FAILED", FALSE, 0, e)
      [] errorsIs(e, "hallucination") ->
             ClassifiedError(L2Intervention, "LLM_HALLUCINATION", TRUE, 2, e)
      [] errorsIs(e, "llm_unavailable") ->
             ClassifiedError(L1Recoverable, "LLM_UNAVAILABLE", TRUE, 3, e)
      [] errorsIs(e, "tool_failed") ->
             ClassifiedError(L1Recoverable, "TOOL_FAILED", TRUE, 2, e)
      [] errorsIs(e, "config_invalid") \/ errorsIs(e, "auth_failed") ->
             ClassifiedError(L3Fatal, "FATAL_CONFIG", FALSE, 0, e)
      [] OTHER ->
             ClassifiedError(L1Recoverable, "UNKNOWN", TRUE, 1, e)

\* ClassifyError on an error chain: nil for nil, the ClassifiedError the
\* chain already holds, else the switch.
Classify(e) ==
    IF e = <<>> THEN <<>>
    ELSE IF errorsAs(e) # <<>> THEN errorsAs(e)
    ELSE ClassifySwitch(e)

\* WrapWithLevel(err, level, message): the level is overwritten, the policy
\* fields stay as ClassifyError left them.
WrapWithLevel(e, level) ==
    LET c == Classify(e)
    IN  <<[c[1] EXCEPT !.Level = level]>> \o Tail(c)

\* NewClassifiedError(level, code, message, cause): Retryable and MaxRetries
\* keep their zero values.
NewClassifiedError(level, cause) == ClassifiedError(level, "CUSTOM", FALSE, 0, cause)

\* The kind of the innermost error value of a chain.
KindOf(e) == e[Len(e)].kind

\* ------------------------------------------------------------------- Saga
\* steps is the field of the Go struct.  idx is the loop position of Execute
\* (0: not called); added, ran and notified are history: the names in the order
\* of the AddCompensation calls, the steps invoked with their outcome, and the
\* NotifyCompensationFailure activities dispatched.  notifyFailed counts the
\* notifications that failed and result is what Execute returned ("none"
\* while it has not).
NewSagaCompensation ==
    [steps |-> <<>>, idx |-> 0, added |-> <<>>, ran |-> <<>>, notified |-> <<>>,
     notifyFailed |-> 0, result |-> "none"]

\* Mutant: the step is appended instead of inserted at the head.
AddCompensationAppend(s, name) == [s EXCEPT !.steps = @ \o <<name>>]

AddCompensation(s, name) == [s EXCEPT !.steps = <<name>> \o @]

SagaAtEnd(s) == s.idx > Len(s.steps)
\* Mutant: Execute returns an error when a step has failed.
SagaReturnError(s) ==
    IF \E i \in 1..Len(s.ran) : ~s.ran[i].ok THEN "error" ELSE "nil"

\* return nil
SagaReturn(s) == "nil"

\* The loop condition of Execute: past the last step, Execute returns.
SagaLoop(s) == IF SagaAtEnd(s) THEN [s EXCEPT !.result = SagaReturn(s)] ELSE s
\* for _, step := range s.steps
SagaBegin(s) == SagaLoop([s EXCEPT !.idx = 1])
SagaCurrent(s) == s.steps[s.idx]
SagaStepRan(s, ok) == [s EXCEPT !.ran = Append(@, [name |-> SagaCurrent(s), ok |-> ok])]
\* Mutant: Execute returns at the first step that failed.
SagaAdvanceStopOnError(s) ==
    IF s.ran # <<>> /\ ~s.ran[Len(s.ran)].ok
    THEN [s EXCEPT !.idx = Len(s.steps) + 1]
    ELSE [s EXCEPT !.idx = @ + 1]

SagaAdvance(s) == SagaLoop([s EXCEPT !.idx = @ + 1])
SagaNotify(s) == [s EXCEPT !.notified = Append(@, SagaCurrent(s))]
\* _ = ...Get(ctx, nil): the error of the notification is dropped.
SagaNotified(s, ok) == [s EXCEPT !.notifyFailed = @ + (IF ok THEN 0 ELSE 1)]
Added(s, name) == [s EXCEPT !.added = Append(@, name)]

\* The Saga part of a phase-A callback: AddCompensation is in the branch of
\* the callback that runs when Get returned no error.
\* Mutant: the compensation is registered whatever Get returned.
CompensatedAlways(s, ok, name) == Added(AddCompensation(s, name), name)

Compensated(s, ok, name) ==
    IF ok THEN Added(AddCompensation(s, name), name) ELSE s

\* ------------------------------------------------------------ aggregation
aggregateClinicalResults(analyses) ==
    [Assessments |-> [i \in 1..Len(analyses) |->
                         [idx |-> analyses[i].idx, drug |-> analyses[i].drug]]]

\* Mutant: totalRevenue is assigned, not accumulated.
aggregateMarketResultsLast(analyses) ==
    [Assessments |-> analyses,
     TotalRiskAdjustedRevenue |->
         IF analyses = <<>> THEN 0 ELSE analyses[Len(analyses)].rev]

aggregateMarketResults(analyses) ==
    [Assessments |-> analyses, TotalRiskAdjustedRevenue |-> SumRevenue(analyses)]

\* ---------------------------------------------------- signal listener
\* The switch of the listener coroutine: the pause flag after one signal.
\* Mutant: pause toggles the flag.
PauseFlagToggle(type, paused) ==
    CASE type = "pause" -> ~paused
      [] type = "resume" -> FALSE
      [] OTHER -> paused

PauseFlagAfter(type, paused) ==
    CASE type = "pause" -> TRUE
      [] type = "resume" -> FALSE
      [] OTHER -> paused

\* The listener returns on cancel and loops on every other signal.
ListenerAfter(type) == IF type = "cancel" THEN "exited" ELSE "running"

\* --------------------------------------------------------- main workflow
FinancialAuditor == Call("FinancialAuditorActivity", 0)
PipelineScout == Call("PipelineScoutActivity", 0)
PipelineAnalysis(i) == Call("PipelineAnalysisWorkflow", i)
Valuation == Call("ValuationWorkflow", 0)
ReportGenerator == Call("ReportGeneratorActivity", 0)
cleanupFinancialData == Call("CleanupCacheActivity:financials", 0)
cleanupPipelineData == Call("CleanupCacheActivity:pipeline", 0)
\* The closure registered under each compensation name.
Compensation(name) ==
    IF name = "financial" THEN cleanupFinancialData ELSE cleanupPipelineData
NotifyCompensationFailure == Call("NotifyCompensationFailure", 0)

\* The activities the worker registers with RegisterActivity.
RegisteredActivities ==
    {"FinancialAuditorActivity", "PipelineScoutActivity", "ClinicalAssessorActivity",
     "MarketStrategistActivity", "ValuationActuaryActivity", "ReportGeneratorActivity",
     "NotifyCompensationFailure"}
\* The workflows the worker registers with RegisterWorkflow.
RegisteredWorkflows ==
    {"BioValueWorkflow", "ValuationWorkflow", "PipelineAnalysisWorkflow"}
\* The name ExecuteActivity is given for a call; the cleanup closures pass the
\* kind of data as an argument of the one activity "CleanupCacheActivity".
ActivityType(call) ==
    IF call \in {cleanupFinancialData, cleanupPipelineData}
    THEN "CleanupCacheActivity" ELSE call.name
IsActivity(call) == call.name \notin RegisteredWorkflows
\* A worker has a handler for the call; without one no attempt of the
\* activity can complete.
Handled(call) == IsActivity(call) => ActivityType(call) \in RegisteredActivities

\* ExecuteActivity / ExecuteChildWorkflow: dispatch without blocking.
Dispatch(s, calls) ==
    [s EXCEPT !.dispatched = @ \o calls, !.running = @ \cup Range(calls)]
Concluded(s, call) == [s EXCEPT !.running = @ \ {call}]

\* if isPaused { waitForResume() }
\* Mutant: the boundary does not look at the flag.
MustWaitNever(paused) == FALSE

MustWait(paused) == paused

StartReport(s) ==
    Dispatch([s EXCEPT !.pc = "report", !.currentAgent = "ReportGenerator"],
             <<ReportGenerator>>)

\* The step after the valuation child: the pause check, then the report.
\* Mutant: a valuation error of any level ends the run with the error.
AfterValuationAbortOnError(s, paused) ==
    IF s.valuationError \in ValuationErrors
    THEN [s EXCEPT !.pc = "done", !.result = "error"]
    ELSE IF MustWait(paused) THEN [s EXCEPT !.pc = "waitReport"] ELSE StartReport(s)

AfterValuation(s, paused) ==
    IF MustWait(paused) THEN [s EXCEPT !.pc = "waitReport"] ELSE StartReport(s)

StartValuation(s) ==
    Dispatch([s EXCEPT !.pc = "valuation", !.currentAgent = "ValuationActuary"],
             <<Valuation>>)

AfterAggregation(s, paused) ==
    IF MustWait(paused) THEN [s EXCEPT !.pc = "waitValuation"] ELSE StartValuation(s)

\* The aggregation of the per-drug results after the fan-in.
\* Mutant: the two aggregation steps are not appended to completedSteps.
AggregateUnrecorded(s) ==
    [s EXCEPT !.output.PipelineAnalyses = s.pipelineAnalyses,
              !.clinical = aggregateClinicalResults(s.pipelineAnalyses),
              !.market = aggregateMarketResults(s.pipelineAnalyses),
              !.aggregated = TRUE]

Aggregate(s) ==
    [s EXCEPT !.output.PipelineAnalyses = s.pipelineAnalyses,
              !.clinical = aggregateClinicalResults(s.pipelineAnalyses),
              !.market = aggregateMarketResults(s.pipelineAnalyses),
              !.aggregated = TRUE,
              !.completedSteps = @ \o <<Step("ClinicalAggregation"),
                                        Step("MarketAggregation")>>]

\* pipelineProgress[name] = status for every pipeline, in sequence order.
MarkAll(progress, pipelines, status) ==
    [d \in DOMAIN progress \cup Range(pipelines) |->
        IF d \in Range(pipelines) THEN status ELSE progress[d]]

\* Mutant: with no pipeline the workflow goes on to the report.
FanOutEmptyToReport(s, paused) ==
    LET n == Len(s.pipelines)
        pending == MarkAll(s.pipelineProgress, s.pipelines, "pending")
        started ==
            Dispatch([s EXCEPT !.currentAgent = "PipelineAnalysis",
                               !.pipelineProgress =
                                   MarkAll(pending, s.pipelines, "in_progress"),
                               !.pipelineFutures =
                                   [i \in 1..n |-> [state |-> "running", rev |-> 0]],
                               !.pc = "fanIn"],
                     [i \in 1..n |-> PipelineAnalysis(i)])
    IN  IF n = 0 THEN AfterValuation(Aggregate(started), paused) ELSE started

FanOut(s, paused) ==
    LET n == Len(s.pipelines)
        pending == MarkAll(s.pipelineProgress, s.pipelines, "pending")
        started ==
            Dispatch([s EXCEPT !.currentAgent = "PipelineAnalysis",
                               !.pipelineProgress =
                                   MarkAll(pending, s.pipelines, "in_progress"),
                               !.pipelineFutures =
                                   [i \in 1..n |-> [state |-> "running", rev |-> 0]],
                               !.pc = "fanIn"],
                     [i \in 1..n |-> PipelineAnalysis(i)])
    IN  IF n = 0 THEN AfterAggregation(Aggregate(started), paused) ELSE started

AfterPhaseA(s, paused) ==
    IF MustWait(paused) THEN [s EXCEPT !.pc = "waitFanOut"] ELSE FanOut(s, paused)

\* for i := 0; i < 2; i++ { selector.Select(ctx) }
\* Mutant: the workflow goes on after the first Select.
PhaseASelectedOnce(s, paused) ==
    LET t == [s EXCEPT !.selected = @ + 1]
    IN  IF t.selected = 1 THEN AfterPhaseA(t, paused) ELSE t

PhaseASelected(s, paused) ==
    LET t == [s EXCEPT !.selected = @ + 1]
    IN  IF t.selected = 2 THEN AfterPhaseA(t, paused) ELSE t

Return(s, result) == [s EXCEPT !.pc = "done", !.result = result]

\* The end of the workflow, from the Get of the report activity: a failure is
\* only logged, the output is stamped and returned.
\* Mutant: a failed report fails the run.
AfterReportAbort(s, ok, now) ==
    IF ok
    THEN Return([s EXCEPT !.completedSteps = Append(@, Step("ReportGenerator")),
                          !.output.Report = TRUE,
                          !.output.CompletedAt = now], "output")
    ELSE Return(s, "error")

AfterReport(s, ok, now) ==
    LET t == IF ok
             THEN [s EXCEPT !.completedSteps = Append(@, Step("ReportGenerator")),
                            !.output.Report = TRUE]
             ELSE s
    IN  Return([t EXCEPT !.output.CompletedAt = now], "output")

\* for range pipelineFutures { pipelineSelector.Select(ctx) }
\* Mutant: a failed child fails the workflow once every child has concluded.
FanInSelectedAbort(s, paused) ==
    IF \E i \in 1..Len(s.pipelines) : PipelineAnalysis(i) \in s.running THEN s
    ELSE IF \E i \in 1..Len(s.pipelines) : s.pipelineFutures[i].state = "failed"
    THEN Return(s, "error")
    ELSE AfterAggregation(Aggregate(s), paused)

FanInSelected(s, paused) ==
    IF \A i \in 1..Len(s.pipelines) : PipelineAnalysis(i) \notin s.running
    THEN AfterAggregation(Aggregate(s), paused)
    ELSE s

\* The valuation branch that runs Saga and aborts.
\* Mutant: only a fatal error runs Saga.
SagaRequiredFatalOnly(level) == level >= L3Fatal

SagaRequired(level) == level >= L2Intervention

WorkflowStart ==
    Dispatch([pc |-> "phaseA",
              currentAgent |-> "FinancialAuditor,PipelineScout",
              completedSteps |-> <<>>,
              pipelineProgress |-> <<>>,
              pipelines |-> <<>>,
              pipelineAnalyses |-> <<>>,
              pipelineFutures |-> <<>>,
              selected |-> 0,
              output |-> [Financial |-> FALSE, Pipeline |-> FALSE,
                          PipelineAnalyses |-> <<>>, Valuation |-> FALSE,
                          Report |-> FALSE, CompletedAt |-> 0],
              clinical |-> aggregateClinicalResults(<<>>),
              market |-> aggregateMarketResults(<<>>),
              aggregated |-> FALSE,
              valuationError |-> "none",
              result |-> "none",
              dispatched |-> <<>>,
              running |-> {}],
             <<FinancialAuditor, PipelineScout>>)

\* workflow.Now: the time of the workflow task that is running, which the
\* history holds, and not the wall clock of the worker that runs the code.
\* Mutant: the workflow reads the wall clock.
timeNow(taskTime, wallClock) == wallClock

workflowNow(taskTime, wallClock) == taskTime

\* The progress query: totalSteps := 4 + len(pipelineProgress)*2
totalSteps(s) == 4 + Cardinality(DOMAIN s.pipelineProgress) * 2
\* float64(len(completedSteps)) / float64(totalSteps) * 100, rounded down to
\* a whole percent.
progressPercent(s) == (Len(s.completedSteps) * 100) \div totalSteps(s)
\* What the progress query answers from the closure state.
ProgressInfo(s) ==
    [CurrentAgent |-> s.currentAgent, CompletedSteps |-> s.completedSteps,
     TotalSteps |-> totalSteps(s), Progress |-> progressPercent(s),
     PipelineProgress |-> s.pipelineProgress]

\* ---------------------------------------------------------------- actions
\* The time of the workflow task that is running: every event the workflow is
\* given occurs later than the events before it.
TaskTime == clock + Len(hist)
\* The executor appends every event the workflow is given to its history,
\* with the time at which it occurred.
Event(type, i, ok, val) ==
    [type |-> type, i |-> i, ok |-> ok, val |-> val, at |-> TaskTime]
Recorded(ev) ==
    /\ hist' = IF recording THEN Append(hist, ev) ELSE hist
    /\ UNCHANGED <<recording, crashesLeft, crashedAt>>

FinancialAuditorDone(ok) ==
    /\ wf.pc = "phaseA"
    /\ FinancialAuditor \in wf.running
    /\ LET s == Concluded(wf, FinancialAuditor)
           t == IF ok
                THEN [s EXCEPT !.completedSteps = Append(@, Step("FinancialAuditor")),
                               !.output.Financial = TRUE]
                ELSE s
       IN  wf' = PhaseASelected(t, isPaused)
    /\ saga' = Compensated(saga, ok, "financial")
    /\ Recorded(Event("FinancialAuditorDone", 0, ok, 0))
    /\ UNCHANGED <<isPaused, listener, signalChan, signalsLeft, pauseRun,
                   resumedFrom, scoutLimit, sub, cacheVars,
                   clockVars, queryVars, errorVars, retryVars, actuaryVars, keyVars>>

PipelineScoutDone(ok, pipelines) ==
    /\ wf.pc = "phaseA"
    /\ PipelineScout \in wf.running
    /\ LET s == Concluded(wf, PipelineScout)
           t == IF ok
                THEN [s EXCEPT !.completedSteps = Append(@, Step("PipelineScout")),
                               !.output.Pipeline = TRUE,
                               !.pipelines = pipelines]
                ELSE s
       IN  wf' = PhaseASelected(t, isPaused)
    /\ saga' = Compensated(saga, ok, "pipeline")
    /\ Recorded(Event("PipelineScoutDone", 0, ok, pipelines))
    /\ UNCHANGED <<isPaused, listener, signalChan, signalsLeft, pauseRun,
                   resumedFrom, scoutLimit, sub, cacheVars,
                   clockVars, queryVars, errorVars, retryVars, actuaryVars, keyVars>>

\* workflow.Await(ctx, func() bool { return !isPaused }) at the three boundaries
ResumeFanOut ==
    /\ wf.pc = "waitFanOut"
    /\ ~isPaused
    /\ wf' = FanOut(wf, isPaused)
    /\ Recorded(Event("ResumeFanOut", 0, TRUE, 0))
    /\ UNCHANGED <<saga, isPaused, listener, signalChan, signalsLeft, pauseRun,
                   resumedFrom, scoutLimit, sub, cacheVars,
                   clockVars, queryVars, errorVars, retryVars, actuaryVars, keyVars>>

ResumeValuation ==
    /\ wf.pc = "waitValuation"
    /\ ~isPaused
    /\ wf' = StartValuation(wf)
    /\ Recorded(Event("ResumeValuation", 0, TRUE, 0))
    /\ UNCHANGED <<saga, isPaused, listener, signalChan, signalsLeft, pauseRun,
                   resumedFrom, scoutLimit, sub, cacheVars,
                   clockVars, queryVars, errorVars, retryVars, actuaryVars, keyVars>>

ResumeReport ==
    /\ wf.pc = "waitReport"
    /\ ~isPaused
    /\ wf' = StartReport(wf)
    /\ Recorded(Event("ResumeReport", 0, TRUE, 0))
    /\ UNCHANGED <<saga, isPaused, listener, signalChan, signalsLeft, pauseRun,
                   resumedFrom, scoutLimit, sub, cacheVars,
                   clockVars, queryVars, errorVars, retryVars, actuaryVars, keyVars>>

\* A per-drug child concludes and its selector callback runs.
PipelineAnalysisDone(i, ok, rev) ==
    /\ wf.pc = "fanIn"
    /\ PipelineAnalysis(i) \in wf.running
    /\ LET drugName == wf.pipelines[i]
           s == [Concluded(wf, PipelineAnalysis(i)) EXCEPT !.pipelineFutures[i] =
                    IF ok THEN [state |-> "ok", rev |-> rev]
                    ELSE [state |-> "failed", rev |-> 0]]
           t == IF ok
                THEN [s EXCEPT !.pipelineAnalyses =
                                   Append(@, [idx |-> i, drug |-> drugName, rev |-> rev]),
                               !.pipelineProgress[drugName] = "completed",
                               !.completedSteps = Append(@, DrugStep(drugName))]
                ELSE [s EXCEPT !.pipelineProgress[drugName] = "failed"]
       IN  wf' = FanInSelected(t, isPaused)
    /\ Recorded(Event("PipelineAnalysisDone", i, ok, rev))
    /\ UNCHANGED <<saga, isPaused, listener, signalChan, signalsLeft, pauseRun,
                   resumedFrom, scoutLimit, sub, cacheVars,
                   clockVars, queryVars, errorVars, retryVars, actuaryVars, keyVars>>

\* saga.Execute: dispatch the step at idx, or return from the workflow with the
\* valuation error when the loop is over.
SagaContinue(s, sg) ==
    IF SagaAtEnd(sg) THEN Return(s, "error")
    ELSE Dispatch([s EXCEPT !.pc = "saga"], <<Compensation(SagaCurrent(sg))>>)

\* The valuation child concludes: outcome is "ok" or the error it failed with.
ValuationDone(outcome) ==
    /\ wf.pc = "valuation"
    /\ LET s == Concluded(wf, Valuation)
           failed == [s EXCEPT !.valuationError = outcome]
       IN  IF outcome = "ok"
           THEN /\ wf' = AfterValuation(
                             [s EXCEPT !.completedSteps = Append(@, Step("ValuationActuary")),
                                       !.output.Valuation = TRUE], isPaused)
                /\ saga' = saga
           ELSE IF SagaRequired(ClassifyError(outcome))
           THEN /\ saga' = SagaBegin(saga)
                /\ wf' = SagaContinue(failed, SagaBegin(saga))
           ELSE /\ wf' = AfterValuation(failed, isPaused)
                /\ saga' = saga
    /\ Recorded(Event("ValuationDone", 0, outcome = "ok", outcome))
    /\ UNCHANGED <<isPaused, listener, signalChan, signalsLeft, pauseRun,
                   resumedFrom, scoutLimit, sub, cacheVars,
                   clockVars, queryVars, errorVars, retryVars, actuaryVars, keyVars>>

\* The cleanup activity of the current compensation step concludes.
CompensationDone(ok) ==
    /\ wf.pc = "saga"
    /\ ok => Handled(Compensation(SagaCurrent(saga)))
    /\ LET s == Concluded(wf, Compensation(SagaCurrent(saga)))
           sg == SagaStepRan(saga, ok)
       IN  IF ok
           THEN /\ saga' = SagaAdvance(sg)
                /\ wf' = SagaContinue(s, SagaAdvance(sg))
           ELSE /\ saga' = SagaNotify(sg)
                /\ wf' = Dispatch([s EXCEPT !.pc = "sagaNotify"],
                                  <<NotifyCompensationFailure>>)
    /\ Recorded(Event("CompensationDone", 0, ok, 0))
    /\ UNCHANGED <<isPaused, listener, signalChan, signalsLeft, pauseRun,
                   resumedFrom, scoutLimit, sub, cacheVars,
                   clockVars, queryVars, errorVars, retryVars, actuaryVars, keyVars>>

\* NotifyCompensationFailure concludes; its result is discarded.
NotifyDone ==
    /\ wf.pc = "sagaNotify"
    /\ saga' = SagaAdvance(saga)
    /\ wf' = SagaContinue(Concluded(wf, NotifyCompensationFailure), SagaAdvance(saga))
    /\ Recorded(Event("NotifyDone", 0, TRUE, 0))
    /\ UNCHANGED <<isPaused, listener, signalChan, signalsLeft, pauseRun,
                   resumedFrom, scoutLimit, sub, cacheVars,
                   clockVars, queryVars, errorVars, retryVars, actuaryVars, keyVars>>

\* The report activity concludes; a failure is only logged.
ReportDone(ok) ==
    /\ wf.pc = "report"
    /\ wf' = AfterReport(Concluded(wf, ReportGenerator), ok,
                         workflowNow(TaskTime, TaskTime))
    /\ Recorded(Event("ReportDone", 0, ok, 0))
    /\ UNCHANGED <<saga, isPaused, listener, signalChan, signalsLeft, pauseRun,
                   resumedFrom, scoutLimit, sub, cacheVars,
                   clockVars, queryVars, errorVars, retryVars, actuaryVars, keyVars>>

\* The operator signals the running workflow on human-intervention.  While the
\* listener coroutine lives it is blocked in Receive and nowhere else, so the
\* workflow task that delivers the signal also runs its switch; once it has
\* returned, the signal stays in the channel for good.
Signal(type) ==
    /\ wf.pc # "done"
    /\ signalsLeft > 0
    /\ signalsLeft' = signalsLeft - 1
    /\ IF listener = "running"
       THEN /\ isPaused' = PauseFlagAfter(type, isPaused)
            /\ listener' = ListenerAfter(type)
            /\ pauseRun' = (IF type = "pause" THEN pauseRun + 1 ELSE 0)
            /\ resumedFrom' = (IF type = "resume" THEN pauseRun ELSE 0)
            /\ signalChan' = signalChan
       ELSE /\ signalChan' = Append(signalChan, type)
            /\ UNCHANGED <<isPaused, listener, pauseRun, resumedFrom>>
    /\ Recorded(Event("Signal", 0, TRUE, type))
    /\ UNCHANGED <<wf, saga, scoutLimit, sub, cacheVars, clockVars, queryVars, errorVars, retryVars, actuaryVars, keyVars>>

\* ------------------------------------------------------ replay and recovery
\* What a worker holds of a running workflow: the closure state of
\* BioValueWorkflow and of its listener coroutine.
Memory ==
    [wf |-> wf, saga |-> saga, isPaused |-> isPaused, listener |-> listener,
     signalChan |-> signalChan]
\* The closure state when the workflow function has run to its first Select.
StartMemory ==
    [wf |-> WorkflowStart, saga |-> NewSagaCompensation, isPaused |-> FALSE,
     listener |-> "running", signalChan |-> <<>>]

\* The workflow code run on one event of the history by a worker whose wall
\* clock reads wall: the callback or the continuation the event resumes.
Apply(m, ev, wall) ==
    CASE ev.type = "FinancialAuditorDone" ->
             LET s == Concluded(m.wf, FinancialAuditor)
                 t == IF ev.ok
                      THEN [s EXCEPT !.completedSteps = Append(@, Step("FinancialAuditor")),
                                     !.output.Financial = TRUE]
                      ELSE s
             IN  [m EXCEPT !.wf = PhaseASelected(t, m.isPaused),
                           !.saga = Compensated(@, ev.ok, "financial")]
      [] ev.type = "PipelineScoutDone" ->
             LET s == Concluded(m.wf, PipelineScout)
                 t == IF ev.ok
                      THEN [s EXCEPT !.completedSteps = Append(@, Step("PipelineScout")),
                                     !.output.Pipeline = TRUE,
                                     !.pipelines = ev.val]
                      ELSE s
             IN  [m EXCEPT !.wf = PhaseASelected(t, m.isPaused),
                           !.saga = Compensated(@, ev.ok, "pipeline")]
      [] ev.type = "ResumeFanOut" -> [m EXCEPT !.wf = FanOut(@, m.isPaused)]
      [] ev.type = "ResumeValuation" -> [m EXCEPT !.wf = StartValuation(@)]
      [] ev.type = "ResumeReport" -> [m EXCEPT !.wf = StartReport(@)]
      [] ev.type = "PipelineAnalysisDone" ->
             LET drugName == m.wf.pipelines[ev.i]
                 s == [Concluded(m.wf, PipelineAnalysis(ev.i)) EXCEPT
                          !.pipelineFutures[ev.i] =
                              IF ev.ok THEN [state |-> "ok", rev |-> ev.val]
                              ELSE [state |-> "failed", rev |-> 0]]
                 t == IF ev.ok
                      THEN [s EXCEPT !.pipelineAnalyses =
                                         Append(@, [idx |-> ev.i, drug |-> drugName,
                                                    rev |-> ev.val]),
                                     !.pipelineProgress[drugName] = "completed",
                                     !.completedSteps = Append(@, DrugStep(drugName))]
                      ELSE [s EXCEPT !.pipelineProgress[drugName] = "failed"]
             IN  [m EXCEPT !.wf = FanInSelected(t, m.isPaused)]
      [] ev.type = "ValuationDone" ->
             LET s == Concluded(m.wf, Valuation)
                 failed == [s EXCEPT !.valuationError = ev.val]
             IN  IF ev.ok
                 THEN [m EXCEPT !.wf = AfterValuation(
                                    [s EXCEPT !.completedSteps =
                                                  Append(@, Step("ValuationActuary")),
                                              !.output.Valuation = TRUE], m.isPaused)]
                 ELSE IF SagaRequired(ClassifyError(ev.val))
                 THEN [m EXCEPT !.saga = SagaBegin(@),
                                !.wf = SagaContinue(failed, SagaBegin(m.saga))]
                 ELSE [m EXCEPT !.wf = AfterValuation(failed, m.isPaused)]
      [] ev.type = "CompensationDone" ->
             LET s == Concluded(m.wf, Compensation(SagaCurrent(m.saga)))
                 sg == SagaStepRan(m.saga, ev.ok)
             IN  IF ev.ok
                 THEN [m EXCEPT !.saga = SagaAdvance(sg),
                                !.wf = SagaContinue(s, SagaAdvance(sg))]
                 ELSE [m EXCEPT !.saga = SagaNotify(sg),
                                !.wf = Dispatch([s EXCEPT !.pc = "sagaNotify"],
                                                <<NotifyCompensationFailure>>)]
      [] ev.type = "NotifyDone" ->
             [m EXCEPT !.saga = SagaAdvance(@),
                       !.wf = SagaContinue(Concluded(@, NotifyCompensationFailure),
                                           SagaAdvance(m.saga))]
      [] ev.type = "ReportDone" ->
             [m EXCEPT !.wf = AfterReport(Concluded(@, ReportGenerator), ev.ok,
                                          workflowNow(ev.at, wall))]
      [] ev.type = "Signal" ->
             IF m.listener = "running"
             THEN [m EXCEPT !.isPaused = PauseFlagAfter(ev.val, @),
                            !.listener = ListenerAfter(ev.val)]
             ELSE [m EXCEPT !.signalChan = Append(@, ev.val)]

\* The workflow function run from its start against the history h.
RECURSIVE Replay(_, _)
Replay(h, wall) ==
    IF h = <<>> THEN StartMemory
    ELSE Apply(Replay(SubSeq(h, 1, Len(h) - 1), wall), h[Len(h)], wall)

\* What the wall clock of a worker that replays the history can read.
WallClocks == {TaskTime + d : d \in 0..MaxDelay}

\* What a worker that picks the workflow up holds of it.
\* Mutant: the workflow function is started anew, without its history.
RecoverFromStart(h, wall) == StartMemory

Recover(h, wall) == Replay(h, wall)

\* The worker is killed while the workflow runs, and the worker that takes the
\* workflow over rebuilds its state.  What the workflow has dispatched runs
\* outside of it and concludes later.
WorkerCrash ==
    /\ recording
    /\ crashesLeft > 0
    /\ wf.pc # "done"
    /\ crashesLeft' = crashesLeft - 1
    /\ crashedAt' = Len(hist)
    /\ \E wall \in WallClocks :
         LET m == Recover(hist, wall)
         IN  /\ wf' = m.wf
             /\ saga' = m.saga
             /\ isPaused' = m.isPaused
             /\ listener' = m.listener
             /\ signalChan' = m.signalChan
    /\ UNCHANGED <<hist, recording, signalsLeft, pauseRun, resumedFrom, scoutLimit,
                   sub, cacheVars, clockVars, queryVars, errorVars, retryVars, actuaryVars, keyVars>>

\* ------------------------------------------------------- progress query
\* The handler registered with SetQueryHandler(ctx, "progress", ...): what it
\* returns and the closure state it leaves.
\* Mutant: the handler notes itself as the current agent.
progressHandlerMarking(m) ==
    [answer |-> ProgressInfo(m.wf),
     memory |-> [m EXCEPT !.wf.currentAgent = "progress"]]

progressHandler(m) == [answer |-> ProgressInfo(m.wf), memory |-> m]

\* A client queries "progress" and is given the answer; the query is no event
\* of the history.
ProgressQuery ==
    /\ queriesLeft > 0
    /\ queriesLeft' = queriesLeft - 1
    /\ LET r == progressHandler(Memory)
       IN  /\ r.answer = ProgressInfo(wf)
           /\ wf' = r.memory.wf
           /\ saga' = r.memory.saga
           /\ isPaused' = r.memory.isPaused
           /\ listener' = r.memory.listener
           /\ signalChan' = r.memory.signalChan
    /\ UNCHANGED <<signalsLeft, pauseRun, resumedFrom, scoutLimit, sub, cacheVars,
                   replayVars, clockVars, errorVars, retryVars, actuaryVars, keyVars>>

\* ------------------------------------------------ classifier on its own
NoCall == [call |-> "none", arg |-> <<>>, level |-> 0, result |-> <<>>]

\* A collaborator fails with an error of some kind.
ErrRaise(kind) ==
    /\ lastErr = <<>>
    /\ lastErr' = ErrorValue(kind)
    /\ UNCHANGED <<classified, workflowVars, sub, cacheVars, replayVars, clockVars,
                   queryVars, retryVars, actuaryVars, keyVars>>

\* A caller adds context: fmt.Errorf("...: %w", lastErr).
ErrWrap ==
    /\ lastErr # <<>>
    /\ Len(lastErr) < MaxChain
    /\ lastErr' = Errorf(lastErr)
    /\ UNCHANGED <<classified, workflowVars, sub, cacheVars, replayVars, clockVars,
                   queryVars, retryVars, actuaryVars, keyVars>>

\* A caller builds a ClassifiedError of a level of its choice around lastErr.
ErrNewClassified(level) ==
    /\ lastErr # <<>>
    /\ Len(lastErr) < MaxChain
    /\ lastErr' = NewClassifiedError(level, lastErr)
    /\ UNCHANGED <<classified, workflowVars, sub, cacheVars, replayVars, clockVars,
                   queryVars, retryVars, actuaryVars, keyVars>>

ErrClassify ==
    /\ lastErr # <<>>
    /\ classified' = [call |-> "ClassifyError", arg |-> lastErr, level |-> 0,
                      result |-> Classify(lastErr)]
    /\ UNCHANGED <<lastErr, workflowVars, sub, cacheVars, replayVars, clockVars,
                   queryVars, retryVars, actuaryVars, keyVars>>

\* WrapWithLevel writes through the pointer ClassifyError returned: a
\* ClassifiedError held by lastErr is the one that is changed.
ErrWrapWithLevel(level) ==
    /\ lastErr # <<>>
    /\ LET r == WrapWithLevel(lastErr, level)
       IN  /\ classified' = [call |-> "WrapWithLevel", arg |-> lastErr, level |-> level,
                             result |-> r]
           /\ lastErr' = IF errorsAs(lastErr) # <<>>
                         THEN SubSeq(lastErr, 1, FirstClassified(lastErr) - 1) \o r
                         ELSE lastErr
    /\ UNCHANGED <<workflowVars, sub, cacheVars, replayVars, clockVars, queryVars, retryVars, actuaryVars, keyVars>>

\* The ClassifiedError that was returned is passed on as the error.
ErrReturn ==
    /\ classified.result # <<>>
    /\ classified.result # lastErr
    /\ Len(classified.result) <= MaxChain
    /\ lastErr' = classified.result
    /\ UNCHANGED <<classified, workflowVars, sub, cacheVars, replayVars, clockVars,
                   queryVars, retryVars, actuaryVars, keyVars>>

\* ------------------------------------------------- activity retry policy
\* The RetryPolicy of the ActivityOptions of each workflow.
NoTypes == {}
FatalTypes == {"FatalError", "ValidationError"}
WorkflowNames == {"BioValueWorkflow", "PipelineAnalysisWorkflow", "ValuationWorkflow"}
RetryPolicy(workflow) ==
    CASE workflow = "BioValueWorkflow" ->
             [MaximumAttempts |-> 5, NonRetryableErrorTypes |-> FatalTypes]
      [] workflow = "PipelineAnalysisWorkflow" ->
             [MaximumAttempts |-> 3, NonRetryableErrorTypes |-> FatalTypes]
      [] workflow = "ValuationWorkflow" ->
             [MaximumAttempts |-> 3, NonRetryableErrorTypes |-> NoTypes]

\* The failure type the activity runtime gives an error an activity returned:
\* the name of its Go type.
ErrorType(e) ==
    CASE e[1].t = "wrap" -> "wrapError"
      [] e[1].t = "classified" -> "ClassifiedError"
      [] e[1].t = "value" -> "errorString"

\* The error an activity returns for a failure of a collaborator:
\* fmt.Errorf("LLM inference failed: %w", err).
ActivityError(kind) == Errorf(ErrorValue(kind))

\* Whether the runtime schedules another attempt after a failure.
Retries(policy, attempts, e) ==
    /\ ErrorType(e) \notin policy.NonRetryableErrorTypes
    /\ attempts < policy.MaximumAttempts

NoActivity == [workflow |-> "", status |-> "idle", attempts |-> 0, error |-> <<>>]

\* A workflow executes an activity under its ActivityOptions.
ActivityScheduled(workflow) ==
    /\ act.status = "idle"
    /\ act' = [NoActivity EXCEPT !.workflow = workflow, !.status = "scheduled"]
    /\ UNCHANGED <<workflowVars, sub, cacheVars, replayVars, clockVars, queryVars,
                   errorVars, actuaryVars, keyVars>>

\* An attempt runs and its collaborator fails with an error of some kind.
ActivityAttemptFailed(kind) ==
    /\ act.status \in {"scheduled", "retrying"}
    /\ LET e == ActivityError(kind)
           n == act.attempts + 1
       IN  act' = [act EXCEPT !.attempts = n,
                              !.error = e,
                              !.status = IF Retries(RetryPolicy(act.workflow), n, e)
                                             THEN "retrying"
                                             ELSE "failed"]
    /\ UNCHANGED <<workflowVars, sub, cacheVars, replayVars, clockVars, queryVars,
                   errorVars, actuaryVars, keyVars>>

\* An attempt runs and returns a result.
ActivityAttemptCompleted ==
    /\ act.status \in {"scheduled", "retrying"}
    /\ act' = [act EXCEPT !.attempts = act.attempts + 1, !.status = "completed"]
    /\ UNCHANGED <<workflowVars, sub, cacheVars, replayVars, clockVars, queryVars,
                   errorVars, actuaryVars, keyVars>>

\* --------------------------------------------------- valuation activity
\* What the valuation collaborator may answer, in percent: WACC and terminal
\* growth inside and outside the range its prompt asks for, 0 being also what
\* json.Unmarshal leaves for a field the answer does not have.
WACCs == {0, 5, 8, 12, 20, 25}
Growths == {0, 2, 3, 5}
\* The GDP growth rate the terminal growth is not to exceed, in percent.
Ceilings == {2, 3}
Answers == [parses : {TRUE}, WACC : WACCs, TerminalGrowth : Growths]
               \cup {[parses |-> FALSE, WACC |-> 0, TerminalGrowth |-> 0]}
NoAssumptions == [WACC |-> 0, TerminalGrowth |-> 0]
NoValuation ==
    [status |-> "idle", ceiling |-> 0, result |-> NoAssumptions, error |-> <<>>,
     output |-> NoAssumptions]

\* json.Unmarshal([]byte(response.FinalAnswer), &result): the fields of a
\* well-formed answer as they are, an error for the rest.
UnmarshalValuation(answer) ==
    IF answer.parses
        THEN [ok |-> TRUE,
              result |-> [WACC |-> answer.WACC, TerminalGrowth |-> answer.TerminalGrowth]]
        ELSE [ok |-> FALSE, result |-> NoAssumptions]

\* The worker is configured.
ActuaryConfigured(ceiling) ==
    /\ actuary.status = "idle"
    /\ actuary' = [actuary EXCEPT !.status = "ready", !.ceiling = ceiling]
    /\ UNCHANGED <<workflowVars, sub, cacheVars, replayVars, clockVars, queryVars,
                   errorVars, retryVars, keyVars>>

\* ValuationActuaryActivity when Infer fails.
ValuationActuaryInferFailed(kind) ==
    /\ actuary.status = "ready"
    /\ actuary' = [actuary EXCEPT !.status = "failed", !.error = ActivityError(kind)]
    /\ UNCHANGED <<workflowVars, sub, cacheVars, replayVars, clockVars, queryVars,
                   errorVars, retryVars, keyVars>>

\* ValuationActuaryActivity when Infer answers.
ValuationActuaryActivity(answer) ==
    /\ actuary.status = "ready"
    /\ LET r == UnmarshalValuation(answer)
       IN  actuary' =
               IF r.ok
                   THEN [actuary EXCEPT !.status = "returned", !.result = r.result]
                   ELSE [actuary EXCEPT !.status = "failed",
                                        !.error = ActivityError("other")]
    /\ UNCHANGED <<workflowVars, sub, cacheVars, replayVars, clockVars, queryVars,
                   errorVars, retryVars, keyVars>>

\* ValuationWorkflow returns the result and BioValueWorkflow puts it into its
\* output.
ValuationRecorded ==
    /\ actuary.status = "returned"
    /\ actuary' = [actuary EXCEPT !.status = "recorded", !.output = actuary.result]
    /\ UNCHANGED <<workflowVars, sub, cacheVars, replayVars, clockVars, queryVars,
                   errorVars, retryVars, keyVars>>

\* --------------------------------------------------- Saga on its own
SagaAdd(name) ==
    /\ saga.idx = 0
    /\ Len(saga.steps) < MaxSteps
    /\ saga' = Added(AddCompensation(saga, name), name)
    /\ UNCHANGED <<wf, isPaused, listener, signalChan, signalsLeft, pauseRun,
                   resumedFrom, scoutLimit, sub, cacheVars,
                   clockVars, replayVars, queryVars, errorVars, retryVars, actuaryVars, keyVars>>

SagaExecute ==
    /\ saga.idx = 0
    /\ saga' = SagaBegin(saga)
    /\ UNCHANGED <<wf, isPaused, listener, signalChan, signalsLeft, pauseRun,
                   resumedFrom, scoutLimit, sub, cacheVars,
                   clockVars, replayVars, queryVars, errorVars, retryVars, actuaryVars, keyVars>>

\* One iteration of the loop of Execute: the step's function returns ok or an
\* error, and an error is followed by the notification.
SagaStep(ok, notifyOk) ==
    /\ saga.idx > 0
    /\ ~SagaAtEnd(saga)
    /\ saga' = SagaAdvance(IF ok THEN SagaStepRan(saga, TRUE)
                           ELSE SagaNotified(SagaNotify(SagaStepRan(saga, FALSE)),
                                             notifyOk))
    /\ UNCHANGED <<wf, isPaused, listener, signalChan, signalsLeft, pauseRun,
                   resumedFrom, scoutLimit, sub, cacheVars,
                   clockVars, replayVars, queryVars, errorVars, retryVars, actuaryVars, keyVars>>

\* ------------------------------------------- per-drug subflow on its own
\* PipelineAnalysisWorkflow for one pipeline, from the ExecuteChildWorkflow of
\* its parent to the parent's selector callback.  POS scores are in percent.
Phases == {"Preclinical", "Phase1", "Phase1_2", "Phase2", "Phase2_3", "Phase3",
           "Approved", "Phase4"}
PosScores == {45, 90}
Ratings == {"BiC", "MeToo"}

\* The POS, in percent, of a pipeline whose clinical assessment failed.
\* Mutant: every phase is given the POS of an unknown phase.
getDefaultPOSFlat(phase) == 20

getDefaultPOS(phase) ==
    CASE phase = "Preclinical" -> 5
      [] phase = "Phase1" -> 10
      [] phase = "Phase1_2" -> 15
      [] phase = "Phase2" -> 30
      [] phase = "Phase2_3" -> 50
      [] phase = "Phase3" -> 60
      [] phase = "Approved" -> 100
      [] OTHER -> 20

NoClinical == [POSScore |-> 0, Rating |-> "", CompetitiveLandscape |-> ""]
NoMarket == [RiskAdjustedRevenue |-> 0, TargetRegion |-> "", TAM |-> 0]
\* The rows the subflow substitutes for a failed activity.
DefaultClinical(pipeline) ==
    [POSScore |-> getDefaultPOS(pipeline.Phase), Rating |-> "Unknown",
     CompetitiveLandscape |-> "Unable to assess"]
DefaultMarket == [RiskAdjustedRevenue |-> 0, TargetRegion |-> "Unknown", TAM |-> 0]

\* The inputs of the two activities of the subflow.
ClinicalAssessorInput(pipeline) ==
    [activity |-> "ClinicalAssessorActivity", Pipeline |-> pipeline,
     Clinical |-> NoClinical]
\* Mutant: the market analysis is given what Get has left in clinicalResult,
\* before the default is substituted.
MarketStrategistInputRaw(pipeline, clinical, failed) ==
    [activity |-> "MarketStrategistActivity", Pipeline |-> pipeline,
     Clinical |-> IF failed THEN NoClinical ELSE clinical]

MarketStrategistInput(pipeline, clinical, failed) ==
    [activity |-> "MarketStrategistActivity", Pipeline |-> pipeline,
     Clinical |-> clinical]

NoPipeline == [DrugName |-> "", Phase |-> ""]
NoResult == [Pipeline |-> NoPipeline, Clinical |-> NoClinical, Market |-> NoMarket]
\* pc: "idle", "clinical", "market", "returned" (the child has concluded and
\* its future is ready) or "collected" (the parent's callback has run).  err is
\* the error the parent's Get returns; clinicalFailed and marketFailed are
\* history: the activity failed and its default row was substituted.
\* scheduled holds the ExecuteActivity calls of the subflow with their inputs,
\* result what the subflow has returned.
NoSubflow ==
    [pc |-> "idle", pipeline |-> [DrugName |-> "", Phase |-> ""],
     clinical |-> NoClinical, market |-> NoMarket,
     clinicalFailed |-> FALSE, marketFailed |-> FALSE, err |-> FALSE,
     progress |-> "pending", analyses |-> <<>>,
     scheduled |-> <<>>, result |-> NoResult]

\* The error PipelineAnalysisWorkflow returns: return result, nil.
\* Mutant: a failed market analysis fails the subflow.
SubflowErrorOnMarket(clinicalFailed, marketFailed) == marketFailed

SubflowError(clinicalFailed, marketFailed) == FALSE

\* The parent's selector callback: the pipeline_progress marker of the drug.
ProgressAfter(err) == IF err THEN "failed" ELSE "completed"

\* The parent starts the child of one pipeline.
ChildStarted(drug, phase) ==
    /\ sub.pc = "idle"
    /\ sub' = [sub EXCEPT !.pc = "clinical",
                          !.pipeline = [DrugName |-> drug, Phase |-> phase],
                          !.progress = "in_progress",
                          !.scheduled =
                              <<ClinicalAssessorInput([DrugName |-> drug,
                                                       Phase |-> phase])>>]
    /\ UNCHANGED <<workflowVars, cacheVars, replayVars, clockVars, queryVars, errorVars, retryVars, actuaryVars, keyVars>>

\* ClinicalAssessorActivity concludes, its retries included.
ClinicalAssessorDone(ok, pos, rating) ==
    /\ sub.pc = "clinical"
    /\ LET clinicalResult ==
               IF ok
               THEN [POSScore |-> pos, Rating |-> rating,
                     CompetitiveLandscape |-> "assessed"]
               ELSE DefaultClinical(sub.pipeline)
       IN  sub' = [sub EXCEPT !.pc = "market",
                              !.clinicalFailed = ~ok,
                              !.clinical = clinicalResult,
                              !.scheduled =
                                  Append(@, MarketStrategistInput(sub.pipeline,
                                                                  clinicalResult, ~ok))]
    /\ UNCHANGED <<workflowVars, cacheVars, replayVars, clockVars, queryVars, errorVars, retryVars, actuaryVars, keyVars>>

\* MarketStrategistActivity concludes and the subflow returns result, nil.
MarketStrategistDone(ok, rev) ==
    /\ sub.pc = "market"
    /\ LET marketResult ==
               IF ok
               THEN [RiskAdjustedRevenue |-> rev, TargetRegion |-> "US", TAM |-> rev]
               ELSE DefaultMarket
       IN  sub' = [sub EXCEPT !.pc = "returned",
                              !.marketFailed = ~ok,
                              !.market = marketResult,
                              !.err = SubflowError(sub.clinicalFailed, ~ok),
                              !.result = [Pipeline |-> sub.pipeline,
                                          Clinical |-> sub.clinical,
                                          Market |-> marketResult]]
    /\ UNCHANGED <<workflowVars, cacheVars, replayVars, clockVars, queryVars, errorVars, retryVars, actuaryVars, keyVars>>

\* The child execution itself fails (timed out, terminated): Get returns an
\* error to the parent.
ChildAborted ==
    /\ sub.pc \in {"clinical", "market"}
    /\ sub' = [sub EXCEPT !.pc = "returned", !.err = TRUE]
    /\ UNCHANGED <<workflowVars, cacheVars, replayVars, clockVars, queryVars, errorVars, retryVars, actuaryVars, keyVars>>

\* The parent's selector callback on the child's future.
ParentCollects ==
    /\ sub.pc = "returned"
    /\ sub' = [sub EXCEPT !.pc = "collected",
                          !.progress = ProgressAfter(sub.err),
                          !.analyses =
                              IF sub.err THEN @
                              ELSE Append(@, [drug |-> sub.pipeline.DrugName,
                                              Clinical |-> sub.clinical,
                                              Market |-> sub.market])]
    /\ UNCHANGED <<workflowVars, cacheVars, replayVars, clockVars, queryVars, errorVars, retryVars, actuaryVars, keyVars>>

\* ------------------------------------------------ cache and activities
\* The six agent activities against the shared cache and the LLM gateway.  An
\* activity blocks in the cache GET, in Infer and in the cache SET, so an
\* execution takes up to three steps and other executions, a worker restart
\* and the clock come in between.  Times are in hours.
Ticker == "BGNE"
ArtifactKinds == {"financials", "pipeline", "clinical", "market", "valuation",
                  "report"}
NoDrug == "-"
PerDrug(kind) == kind \in {"clinical", "market"}
Subjects ==
    {s \in [kind : ArtifactKinds, drug : DrugNames \cup {NoDrug}] :
        PerDrug(s.kind) <=> s.drug # NoDrug}

\* The activities that GET before they call the collaborator.
\* Mutant: no activity reads the cache.
ReadsCacheNever(kind) == FALSE

ReadsCache(kind) == kind \in {"financials", "pipeline", "clinical", "market"}
\* The activities that SET their result.
WritesCache(kind) == kind # "valuation"

TTL(kind) ==
    CASE kind = "financials" -> 24
      [] kind = "pipeline" -> 24
      [] kind = "clinical" -> 12
      [] kind = "market" -> 6
      [] kind = "report" -> 7 * 24

\* A string is the sequence of the segments its ':' separate: "A:pipeline" is
\* <<"A", "pipeline">>, a string without ':' is one segment.
\* fmt.Sprintf("company:%s:...", ticker [, drug]): the segments of the key.
cacheKey(kind, ticker, drug) ==
    CASE kind = "financials" -> <<"company">> \o ticker \o <<"financials">>
      [] kind = "pipeline" -> <<"company">> \o ticker \o <<"pipeline", "raw">>
      [] kind = "clinical" ->
             <<"company">> \o ticker \o <<"pipeline">> \o drug \o <<"clinical">>
      [] kind = "market" ->
             <<"company">> \o ticker \o <<"pipeline">> \o drug \o <<"market">>
      [] kind = "report" -> <<"company">> \o ticker \o <<"report", "final">>
\* The key for a ticker and a drug name that hold no ':'.
CacheKey(kind, ticker, drug) == cacheKey(kind, <<ticker>>, <<drug>>)
Keys == {CacheKey(s.kind, Ticker, s.drug) : s \in {t \in Subjects : WritesCache(t.kind)}}

\* Stored bytes: the JSON of an artifact, bytes that are no JSON ("garbage"),
\* or JSON that has none of the fields of the artifact ("empty_object", {}).
NilBytes == [class |-> "nil", body |-> "", asOf |-> 0]
NoEntry == [bytes |-> NilBytes, exp |-> 0]
ZeroValue == [body |-> "", asOf |-> 0]
UnusableClasses == {"garbage", "empty_object"}

jsonMarshal(value) == [class |-> "artifact", body |-> value.body, asOf |-> value.asOf]
\* json.Unmarshal into the artifact struct: bytes that are no JSON give an
\* error; JSON without the fields gives the zero value and no error.
jsonUnmarshal(bytes) ==
    CASE bytes.class = "artifact" ->
             [err |-> FALSE, value |-> [body |-> bytes.body, asOf |-> bytes.asOf]]
      [] bytes.class = "empty_object" -> [err |-> FALSE, value |-> ZeroValue]
      [] OTHER -> [err |-> TRUE, value |-> ZeroValue]

\* RedisCache.Get: "" for a key that is absent or has expired.
redisGet(c, key, now) == IF now >= c[key].exp THEN NilBytes ELSE c[key].bytes
\* RedisCache.Set
redisSet(c, key, bytes, ttl, now) ==
    [c EXCEPT ![key] = [bytes |-> bytes, exp |-> now + ttl]]

\* time.Since; the zero time.Time (0) lies centuries back.
timeSince(now, t) == IF t = 0 THEN now + 24 * 365 ELSE now - t
\* PipelineScoutActivity alone looks at the age of what it has read.
\* Mutant: no activity looks at the age.
FreshAlways(kind, value, now) == TRUE

Fresh(kind, value, now) == kind = "pipeline" => timeSince(now, value.asOf) < 24

\* What the LLM gateway answers: an error, text that is no JSON, or one of the
\* answers the activity can use.
AnswerBodies == {"a1", "a2"}
InferOutcomes == {"error", "garbled"} \cup AnswerBodies
TickHours == {TTL(kind) : kind \in {"financials", "pipeline", "clinical", "market", "report"}}
\* ReportGeneratorActivity takes the answer as it is; the others unmarshal it.
ParsesAnswer(kind) == kind # "report"
\* UpdatedAt, DataAsOf and GeneratedAt are set from time.Now().
Stamped(kind) == kind \in {"financials", "pipeline", "report"}
Artifact(kind, answer, now) ==
    [body |-> answer, asOf |-> IF Stamped(kind) THEN now ELSE 0]

NoOutcome ==
    [n |-> 0, kind |-> "", drug |-> "", status |-> "none", cause |-> "none",
     result |-> ZeroValue, hit |-> FALSE, found |-> "nil", getErr |-> FALSE,
     setErr |-> FALSE, llmCalls |-> 0]
\* What an execution returns to the executor, with the history of how.
Outcome(e, status, cause, hit, setErr, result, llmCalls) ==
    [n |-> last.n + 1, kind |-> e.kind, drug |-> e.drug, status |-> status,
     cause |-> cause, result |-> result, hit |-> hit, found |-> e.found,
     getErr |-> e.getErr, setErr |-> setErr, llmCalls |-> llmCalls]

Remove(q, k) == SubSeq(q, 1, k - 1) \o SubSeq(q, k + 1, Len(q))

\* The end of an activity after its SET: the error of Set is logged or dropped.
\* Mutant: the error of Set is returned.
AfterCacheSetStrict(e, setErr) ==
    IF setErr THEN Outcome(e, "failed", "cache_error", FALSE, setErr, ZeroValue, e.llmCalls)
    ELSE Outcome(e, "ok", "none", FALSE, setErr, e.result, e.llmCalls)

AfterCacheSet(e, setErr) ==
    Outcome(e, "ok", "none", FALSE, setErr, e.result, e.llmCalls)

\* An activity starts on a worker and runs to its cache check: it returns what
\* it has read, or goes on to the collaborator.
ActivityBegin(kind, drug, getErr) ==
    /\ quota.execs > 0
    /\ quota.subject = [kind |-> kind, drug |-> drug]
    /\ getErr => ReadsCache(kind) /\ quota.faults > 0
    /\ LET cached == IF ReadsCache(kind) /\ ~getErr
                     THEN redisGet(cache, CacheKey(kind, Ticker, drug), clock)
                     ELSE NilBytes
           parsed == jsonUnmarshal(cached)
           hit == /\ cached.class # "nil"
                  /\ ~parsed.err
                  /\ Fresh(kind, parsed.value, clock)
           e == [kind |-> kind, drug |-> drug, pc |-> "infer", found |-> cached.class,
                 getErr |-> getErr, result |-> ZeroValue, llmCalls |-> 0]
       IN  IF hit
           THEN /\ last' = Outcome(e, "ok", "none", TRUE, FALSE, parsed.value, 0)
                /\ execs' = execs
           ELSE /\ execs' = Append(execs, e)
                /\ last' = last
    /\ quota' = [quota EXCEPT !.execs = @ - 1,
                              !.faults = IF getErr THEN @ - 1 ELSE @]
    /\ UNCHANGED <<cache, inferred, workflowVars, sub, replayVars, clockVars,
                   queryVars, errorVars, retryVars, actuaryVars, keyVars>>

\* llmClient.Infer returns and the activity handles the answer.
Infer(k, outcome) ==
    /\ k \in 1..Len(execs)
    /\ execs[k].pc = "infer"
    /\ LET e == execs[k]
           result == Artifact(e.kind, outcome, clock)
       IN  IF outcome = "error"
           THEN /\ last' = Outcome(e, "failed", "llm_error", FALSE, FALSE, ZeroValue, 1)
                /\ execs' = Remove(execs, k)
                /\ inferred' = inferred
           ELSE IF outcome = "garbled" /\ ParsesAnswer(e.kind)
           THEN /\ last' = Outcome(e, "failed", "parse_error", FALSE, FALSE, ZeroValue, 1)
                /\ execs' = Remove(execs, k)
                /\ inferred' = inferred
           ELSE /\ inferred' = Append(inferred, [kind |-> e.kind, drug |-> e.drug,
                                                 at |-> clock])
                /\ IF WritesCache(e.kind)
                   THEN /\ execs' = [execs EXCEPT ![k] = [e EXCEPT !.pc = "set",
                                                                    !.result = result,
                                                                    !.llmCalls = 1]]
                        /\ last' = last
                   ELSE /\ execs' = Remove(execs, k)
                        /\ last' = Outcome(e, "ok", "none", FALSE, FALSE, result, 1)
    /\ UNCHANGED <<cache, quota, workflowVars, sub, replayVars, clockVars, queryVars, errorVars, retryVars, actuaryVars, keyVars>>

\* a.cache.Set returns and the activity returns its result.
CacheSet(k, setErr) ==
    /\ k \in 1..Len(execs)
    /\ execs[k].pc = "set"
    /\ setErr => quota.faults > 0
    /\ LET e == execs[k]
       IN  /\ cache' = IF setErr THEN cache
                       ELSE redisSet(cache, CacheKey(e.kind, Ticker, e.drug),
                                     jsonMarshal(e.result), TTL(e.kind), clock)
           /\ last' = AfterCacheSet(e, setErr)
           /\ execs' = Remove(execs, k)
    /\ quota' = [quota EXCEPT !.faults = IF setErr THEN @ - 1 ELSE @]
    /\ UNCHANGED <<inferred, workflowVars, sub, replayVars, clockVars, queryVars, errorVars, retryVars, actuaryVars, keyVars>>

\* The worker is killed and restarted: the executions it ran are gone, and
\* what the executor retries starts anew.
WorkerRestart ==
    /\ execs # <<>>
    /\ execs' = <<>>
    /\ UNCHANGED <<cache, inferred, last, quota, workflowVars, sub, replayVars,
                   clockVars, queryVars, errorVars, retryVars, actuaryVars, keyVars>>

\* The bytes stored under the key of the artifact are replaced behind the
\* back of the activities.
Corrupt(class) ==
    /\ quota.corruptions > 0
    /\ WritesCache(quota.subject.kind)
    /\ LET key == CacheKey(quota.subject.kind, Ticker, quota.subject.drug)
       IN  /\ redisGet(cache, key, clock) # NilBytes
           /\ cache' = [cache EXCEPT ![key].bytes =
                            [class |-> class, body |-> "", asOf |-> 0]]
    /\ quota' = [quota EXCEPT !.corruptions = @ - 1]
    /\ UNCHANGED <<execs, inferred, last, workflowVars, sub, replayVars, clockVars,
                   queryVars, errorVars, retryVars, actuaryVars, keyVars>>

\* Time passes.
Tick(hours) ==
    /\ clock + hours <= clockLimit
    /\ clock' = clock + hours
    /\ UNCHANGED <<clockLimit, workflowVars, sub, cacheVars, replayVars, queryVars, errorVars, retryVars, actuaryVars, keyVars>>

\* ------------------------------------------------------------ cache keys
\* Tickers and drug names, with and without ':'.
KeyAlphabet == {"A", "pipeline"}
KeyStrings == SeqsUpTo(KeyAlphabet, MaxSegments) \ {<<>>}
NoDrugName == <<"-">>
KeyKinds == {"financials", "pipeline", "clinical", "market", "report"}
KeyTuples ==
    {t \in [kind : KeyKinds, ticker : KeyStrings, drug : KeyStrings \cup {NoDrugName}] :
        (t.kind \in {"clinical", "market"}) <=> (t.drug # NoDrugName)}
NoKeys == [status |-> "idle", a |-> <<>>, b |-> <<>>, keyA |-> <<>>, keyB |-> <<>>]

\* Two activities compute the cache key of their artifact.
FormatKeys ==
    /\ keyPair.status = "chosen"
    /\ keyPair' = [keyPair EXCEPT
                       !.status = "formatted",
                       !.keyA = cacheKey(keyPair.a.kind, keyPair.a.ticker, keyPair.a.drug),
                       !.keyB = cacheKey(keyPair.b.kind, keyPair.b.ticker, keyPair.b.drug)]
    /\ UNCHANGED <<workflowVars, sub, cacheVars, replayVars, clockVars, queryVars,
                   errorVars, retryVars, actuaryVars>>

\* ---------------------------------------------------------- specifications
WorkflowStarted(signals, drugs) ==
    /\ wf = WorkflowStart
    /\ saga = NewSagaCompensation
    /\ isPaused = FALSE
    /\ listener = "running"
    /\ signalChan = <<>>
    /\ signalsLeft = signals
    /\ pauseRun = 0
    /\ resumedFrom = 0
    /\ scoutLimit = drugs

SubflowIdle == sub = NoSubflow

NoQuota ==
    [subject |-> [kind |-> "financials", drug |-> NoDrug], execs |-> 0,
     faults |-> 0, corruptions |-> 0]
CacheIdle(q) ==
    /\ cache = [key \in Keys |-> NoEntry]
    /\ execs = <<>>
    /\ inferred = <<>>
    /\ last = NoOutcome
    /\ quota = q

ReplayOff == hist = <<>> /\ recording = FALSE /\ crashesLeft = 0 /\ crashedAt = 0
ClockAt(limit) == clock = 1 /\ clockLimit = limit
QueryIdle == queriesLeft = 0
ErrorIdle == lastErr = <<>> /\ classified = NoCall
RetryIdle == act = NoActivity
ActuaryIdle == actuary = NoValuation
KeyIdle == keyPair = NoKeys

Started(signals, drugs) ==
    /\ WorkflowStarted(signals, drugs)
    /\ SubflowIdle
    /\ CacheIdle(NoQuota)
    /\ ReplayOff
    /\ ClockAt(1)
    /\ QueryIdle
    /\ ErrorIdle
    /\ RetryIdle
    /\ ActuaryIdle
    /\ KeyIdle

Flow ==
    \/ \E ok \in BOOLEAN : FinancialAuditorDone(ok)
    \/ \E ok \in BOOLEAN, p \in SeqsUpTo(DrugNames, scoutLimit) :
           PipelineScoutDone(ok, p)
    \/ \E i \in 1..Len(wf.pipelines), ok \in BOOLEAN, rev \in Revenues :
           PipelineAnalysisDone(i, ok, rev)
    \/ \E outcome \in {"ok"} \cup ValuationErrors : ValuationDone(outcome)
    \/ \E ok \in BOOLEAN : CompensationDone(ok)
    \/ NotifyDone
    \/ \E ok \in BOOLEAN : ReportDone(ok)

Await == ResumeFanOut \/ ResumeValuation \/ ResumeReport

\* The workflow under the operator's signals.
Init == Started(MaxSignals, SignalDrugs)
Progress == Flow \/ Await
Next == Progress \/ \E type \in SignalTypes : Signal(type)
Spec == Init /\ [][Next]_vars
\* Activities and children conclude (each has a start-to-close timeout) and the
\* executor runs every coroutine that can take a step; the operator is free to
\* send nothing.
FairSpec == Spec /\ WF_vars(Progress)

\* The workflow left alone by the operator, over longer pipeline sequences.
FlowInit == Started(0, MaxDrugs)
FlowSpec == FlowInit /\ [][Flow]_vars

\* SagaCompensation driven by arbitrary AddCompensation calls, then Execute.
SagaNext == (\E name \in StepNames : SagaAdd(name)) \/ SagaExecute
                \/ \E ok, notifyOk \in BOOLEAN : SagaStep(ok, notifyOk)
SagaSpec == Init /\ [][SagaNext]_vars

\* One per-drug subflow and its parent's callback.
SubflowNext ==
    \/ \E drug \in DrugNames, phase \in Phases : ChildStarted(drug, phase)
    \/ \E ok \in BOOLEAN, pos \in PosScores, rating \in Ratings :
           ClinicalAssessorDone(ok, pos, rating)
    \/ \E ok \in BOOLEAN, rev \in Revenues : MarketStrategistDone(ok, rev)
    \/ ChildAborted
    \/ ParentCollects
SubflowSpec == Init /\ [][SubflowNext]_vars

\* The executions of the activity of one artifact, of any workflow and any
\* attempt, against the cache.
CacheInit ==
    /\ WorkflowStarted(0, 0)
    /\ SubflowIdle
    /\ \E s \in Subjects :
           CacheIdle([subject |-> s, execs |-> MaxExecs, faults |-> MaxFaults,
                      corruptions |-> MaxCorruptions])
    /\ ReplayOff
    /\ ClockAt(CacheClock)
    /\ QueryIdle
    /\ ErrorIdle
    /\ RetryIdle
    /\ ActuaryIdle
    /\ KeyIdle
CacheNext ==
    \/ \E kind \in ArtifactKinds, drug \in DrugNames \cup {NoDrug}, getErr \in BOOLEAN :
           ActivityBegin(kind, drug, getErr)
    \/ \E k \in 1..Len(execs), outcome \in InferOutcomes : Infer(k, outcome)
    \/ \E k \in 1..Len(execs), setErr \in BOOLEAN : CacheSet(k, setErr)
    \/ WorkerRestart
    \/ \E class \in UnusableClasses : Corrupt(class)
    \/ \E hours \in TickHours : Tick(hours)
CacheSpec == CacheInit /\ [][CacheNext]_vars

\* The executions of PipelineScoutActivity over more than a day.
FreshInit ==
    /\ WorkflowStarted(0, 0)
    /\ SubflowIdle
    /\ CacheIdle([subject |-> [kind |-> "pipeline", drug |-> NoDrug],
                  execs |-> FreshExecs, faults |-> MaxFaults, corruptions |-> 0])
    /\ ReplayOff
    /\ ClockAt(FreshClock)
    /\ QueryIdle
    /\ ErrorIdle
    /\ RetryIdle
    /\ ActuaryIdle
    /\ KeyIdle
FreshNext ==
    \/ \E getErr \in BOOLEAN : ActivityBegin("pipeline", NoDrug, getErr)
    \/ \E k \in 1..Len(execs), outcome \in InferOutcomes : Infer(k, outcome)
    \/ \E k \in 1..Len(execs), setErr \in BOOLEAN : CacheSet(k, setErr)
    \/ \E hours \in TickHours : Tick(hours)
FreshSpec == FreshInit /\ [][FreshNext]_vars

\* The cache keys of two artifacts.
KeyInit ==
    /\ WorkflowStarted(0, 0)
    /\ SubflowIdle
    /\ CacheIdle(NoQuota)
    /\ ReplayOff
    /\ ClockAt(1)
    /\ QueryIdle
    /\ ErrorIdle
    /\ RetryIdle
    /\ ActuaryIdle
    /\ \E a, b \in KeyTuples :
           keyPair = [NoKeys EXCEPT !.status = "chosen", !.a = a, !.b = b]
KeyNext == FormatKeys
KeySpec == KeyInit /\ [][KeyNext]_vars

\* The workflow with its event history recorded.
Recording(crashes) ==
    /\ hist = <<>>
    /\ recording = TRUE
    /\ crashesLeft = crashes
    /\ crashedAt = 0

\* The recorded workflow under the operator's signals, or left alone over
\* longer pipeline sequences.
ReplayInit ==
    /\ \/ WorkflowStarted(ReplaySignals, ReplaySignalDrugs)
       \/ WorkflowStarted(0, ReplayDrugs)
    /\ SubflowIdle
    /\ CacheIdle(NoQuota)
    /\ Recording(0)
    /\ ClockAt(1)
    /\ QueryIdle
    /\ ErrorIdle
    /\ RetryIdle
    /\ ActuaryIdle
    /\ KeyIdle
ReplayNext == Progress \/ \E type \in SignalTypes : Signal(type)
ReplaySpec == ReplayInit /\ [][ReplayNext]_vars

\* The recorded workflow on workers that are killed.
CrashInit ==
    /\ WorkflowStarted(0, CrashDrugs)
    /\ SubflowIdle
    /\ CacheIdle(NoQuota)
    /\ Recording(MaxCrashes)
    /\ ClockAt(1)
    /\ QueryIdle
    /\ ErrorIdle
    /\ RetryIdle
    /\ ActuaryIdle
    /\ KeyIdle
CrashNext == Flow \/ WorkerCrash
CrashSpec == CrashInit /\ [][CrashNext]_vars

\* The workflow under the operator's signals and a client's progress queries.
QueryInit ==
    /\ WorkflowStarted(QuerySignals, QueryDrugs)
    /\ SubflowIdle
    /\ CacheIdle(NoQuota)
    /\ ReplayOff
    /\ ClockAt(1)
    /\ queriesLeft = MaxQueries
    /\ ErrorIdle
    /\ RetryIdle
    /\ ActuaryIdle
    /\ KeyIdle
QueryNext == Progress \/ (\E type \in SignalTypes : Signal(type)) \/ ProgressQuery
QuerySpec == QueryInit /\ [][QueryNext]_vars

\* The classifier on its own: errors of every kind, wrapped and classified.
ClassifierNext ==
    \/ \E kind \in AllKinds : ErrRaise(kind)
    \/ ErrWrap
    \/ \E level \in Levels : ErrNewClassified(level)
    \/ ErrClassify
    \/ \E level \in Levels : ErrWrapWithLevel(level)
    \/ ErrReturn
ClassifierSpec == Init /\ [][ClassifierNext]_vars

\* One activity under the retry policy of each workflow.
RetryNext ==
    \/ \E workflow \in WorkflowNames : ActivityScheduled(workflow)
    \/ \E kind \in AllKinds : ActivityAttemptFailed(kind)
    \/ ActivityAttemptCompleted
RetrySpec == Init /\ [][RetryNext]_vars

\* The valuation activity on the answers of its collaborator.
ActuaryNext ==
    \/ \E ceiling \in Ceilings : ActuaryConfigured(ceiling)
    \/ \E kind \in AllKinds : ValuationActuaryInferFailed(kind)
    \/ \E answer \in Answers : ValuationActuaryActivity(answer)
    \/ ValuationRecorded
ActuarySpec == Init /\ [][ActuaryNext]_vars

\* ------------------------------------------------------------------ claims
SagaFinished == saga.idx > 0 /\ SagaAtEnd(saga)
RanNames == [i \in 1..Len(saga.ran) |-> saga.ran[i].name]
Reverse(q) == [i \in 1..Len(q) |-> q[Len(q) - i + 1]]

\* C1: Execute invokes the steps in exactly the reverse of the order of the
\* AddCompensation calls, and when it returns it has invoked every one of them,
\* whatever steps returned an error.
C1_SagaLIFO ==
    /\ \A i \in 1..Len(saga.ran) : saga.ran[i].name = Reverse(saga.added)[i]
    /\ SagaFinished => Len(saga.ran) = Len(saga.added)

C1_Witness ==
    /\ SagaFinished
    /\ saga.added = <<"a", "b", "c">>
    /\ RanNames = <<"c", "b", "a">>
    /\ ~saga.ran[1].ok
    /\ saga.notified = <<"c">>

BothPhaseASucceeded == wf.output.Financial /\ wf.output.Pipeline
FinancialConsumedFirst == wf.completedSteps[1] = Step("FinancialAuditor")
FatalValuationCompensated ==
    BothPhaseASucceeded /\ wf.valuationError = "config_invalid" /\ SagaFinished

\* C2 as claimed: after both phase-A activities succeeded and the valuation
\* child failed with config-invalid, Saga has run cleanupPipelineData first and
\* cleanupFinancialData second, whichever future the selector consumed first.
C2_PipelineCleanupFirst ==
    FatalValuationCompensated => RanNames = <<"pipeline", "financial">>

\* C2 amended: Saga runs the two cleanups in the reverse of the order in which
\* the selector consumed the two completions: pipeline then financial when the
\* financial auditor was consumed first, financial then pipeline otherwise.
C2_CleanupReversesCompletion ==
    FatalValuationCompensated =>
        RanNames = IF FinancialConsumedFirst THEN <<"pipeline", "financial">>
                   ELSE <<"financial", "pipeline">>

C2_Witness ==
    /\ FatalValuationCompensated
    /\ ~FinancialConsumedFirst
    /\ RanNames = <<"financial", "pipeline">>
    /\ wf.pc = "done"

ValuationFailedAtLeastL2 ==
    /\ wf.valuationError \in ValuationErrors
    /\ ClassifyError(wf.valuationError) >= L2Intervention

\* C3: once the valuation child has failed with an error classified L2 or L3,
\* Saga Execute is called and runs every registered step, the workflow returns
\* an error and no output, and the report generator is never scheduled.
C3_ValuationFailureAborts ==
    ValuationFailedAtLeastL2 =>
        /\ saga.idx > 0
        /\ wf.pc \in {"saga", "sagaNotify", "done"}
        /\ ReportGenerator \notin Range(wf.dispatched)
        /\ wf.result # "output"
        /\ wf.pc = "done" =>
               /\ wf.result = "error"
               /\ SagaFinished
               /\ Len(saga.ran) = Len(saga.steps)

C3_Witness ==
    /\ wf.valuationError = "validation_failed"
    /\ wf.pc = "done"
    /\ wf.result = "error"
    /\ Len(saga.ran) = 2

WaitPcs == {"waitFanOut", "waitValuation", "waitReport"}

\* C4 as claimed: once the listener has received cancel, the workflow returns no
\* WorkflowOutput.
C4_CancelYieldsNoOutput == listener = "exited" => wf.result # "output"

\* C5 as claimed: a workflow that has processed pause and then cancel, with the
\* pause never lifted, eventually reaches a terminal state.
C5_PausedCancelTerminates == (isPaused /\ listener = "exited") ~> (wf.pc = "done")

\* C6: after n >= 1 consecutive pause signals the workflow is paused, and one
\* resume after them leaves the pause flag false, however large n was.
C6_PauseIdempotent ==
    /\ pauseRun >= 1 => isPaused
    /\ resumedFrom >= 1 => ~isPaused

C6_Witness ==
    /\ resumedFrom >= 2
    /\ ~isPaused
    /\ wf.pc = "waitFanOut"

IsPhaseWork(call) ==
    call.name \in {"PipelineAnalysisWorkflow", "ValuationWorkflow",
                   "ReportGeneratorActivity"}
PhaseDispatches == SelectSeq(wf.dispatched, IsPhaseWork)

\* C7: a step taken while the pause flag is set schedules no per-drug child, no
\* valuation child and no report activity, and the step in which a pause is
\* processed leaves every activity and child in flight as it was.
C7_PauseGatesPhases ==
    [][/\ isPaused => PhaseDispatches' = PhaseDispatches
       /\ (~isPaused /\ isPaused') => wf' = wf]_vars

C7_Witness ==
    /\ isPaused
    /\ wf.pc = "waitValuation"
    /\ Len(wf.pipelines) >= 1
    /\ PipelineAnalysis(1) \in Range(wf.dispatched)
    /\ Valuation \notin Range(wf.dispatched)

\* The main coroutine is blocked at a boundary and a resume, the operator's last
\* signal, has been delivered after the pause that blocked it.
ResumeDeliveredLast ==
    /\ wf.pc \in WaitPcs
    /\ signalsLeft = 0
    /\ \/ resumedFrom >= 1
       \/ /\ isPaused
          /\ listener = "exited"
          /\ signalChan # <<>>
          /\ signalChan[Len(signalChan)] = "resume"

\* C8 as claimed: whenever the main workflow is blocked at a phase boundary and
\* a resume is then delivered (and no signal follows it), the next phase is
\* eventually started.
C8_ResumeStartsNextPhase == ResumeDeliveredLast ~> (wf.pc \notin WaitPcs)

FailedDrugs ==
    Cardinality({d \in DOMAIN wf.pipelineProgress : wf.pipelineProgress[d] = "failed"})

\* C9 as claimed: after the fan-out, the number of clinical assessments plus the
\* number of drugs marked failed in pipeline_progress is the number of
\* pipelines, and the same for the market assessments.
C9_Conservation ==
    wf.aggregated =>
        /\ Len(wf.clinical.Assessments) + FailedDrugs = Len(wf.pipelines)
        /\ Len(wf.market.Assessments) + FailedDrugs = Len(wf.pipelines)

Succeeded == {i \in 1..Len(wf.pipelineFutures) : wf.pipelineFutures[i].state = "ok"}

RECURSIVE FutureRevenue(_)
FutureRevenue(S) ==
    IF S = {} THEN 0
    ELSE LET i == CHOOSE j \in S : TRUE
         IN  wf.pipelineFutures[i].rev + FutureRevenue(S \ {i})

\* C10: total_risk_adjusted_revenue is the sum of the revenues returned by the
\* child workflows that succeeded, the market assessments are those of exactly
\* these children, one each, and an empty list gives 0.
C10_TotalRevenue ==
    wf.aggregated =>
        /\ wf.market.TotalRiskAdjustedRevenue = FutureRevenue(Succeeded)
        /\ {wf.market.Assessments[k].idx : k \in 1..Len(wf.market.Assessments)}
               = Succeeded
        /\ Len(wf.market.Assessments) = Cardinality(Succeeded)
        /\ \A k \in 1..Len(wf.market.Assessments) :
               wf.market.Assessments[k].rev =
                   wf.pipelineFutures[wf.market.Assessments[k].idx].rev

C10_Witness ==
    /\ wf.aggregated
    /\ Len(wf.pipelines) = 2
    /\ wf.pipelineFutures[1].state = "failed"
    /\ wf.pipelineFutures[2].state = "ok"
    /\ wf.market.TotalRiskAdjustedRevenue = 2
    /\ wf.pc = "done"

InPipelineOrder(q) == \A j, k \in 1..Len(q) : j < k => q[j].idx < q[k].idx

\* C11 as claimed: after the aggregation PipelineAnalyses, the clinical
\* assessments and the market assessments list the successful drugs in the
\* relative order of PipelineResult.Pipelines, in whatever order the per-drug
\* children completed.
C11_AggregationKeepsPipelineOrder ==
    wf.aggregated =>
        /\ InPipelineOrder(wf.output.PipelineAnalyses)
        /\ InPipelineOrder(wf.clinical.Assessments)
        /\ InPipelineOrder(wf.market.Assessments)

ChildFails(i) ==
    /\ wf.pipelineFutures[i].state = "running"
    /\ wf'.pipelineFutures[i].state = "failed"
AllConcluded(s) ==
    \A i \in 1..Len(s.pipelineFutures) : s.pipelineFutures[i].state # "running"
Collected(s) == {s.pipelineAnalyses[k].idx : k \in 1..Len(s.pipelineAnalyses)}

\* C12: the step in which a per-drug child fails marks the drug of that child
\* failed and no other, keeps every result collected and every other future as
\* it was, and does not fail the workflow; the results collected are those of
\* exactly the children that succeeded, and once every child has concluded,
\* failed or not, the aggregation has run and the valuation child is scheduled.
C12_ChildFailureIsolated ==
    [][\A i \in 1..Len(wf.pipelineFutures) : ChildFails(i) =>
          /\ wf'.pipelineProgress[wf.pipelines[i]] = "failed"
          /\ \A d \in DOMAIN wf.pipelineProgress \ {wf.pipelines[i]} :
                 wf'.pipelineProgress[d] = wf.pipelineProgress[d]
          /\ wf'.pipelineAnalyses = wf.pipelineAnalyses
          /\ \A j \in 1..Len(wf.pipelineFutures) \ {i} :
                 wf'.pipelineFutures[j] = wf.pipelineFutures[j]
          /\ Collected(wf') =
                 {j \in 1..Len(wf.pipelines) : wf'.pipelineFutures[j].state = "ok"}
          /\ wf'.result = "none"
          /\ AllConcluded(wf') =>
                 /\ wf'.aggregated
                 /\ wf'.output.PipelineAnalyses = wf'.pipelineAnalyses
                 /\ wf'.pc = "valuation"
                 /\ Valuation \in wf'.running]_vars

C12_Witness ==
    /\ Len(wf.pipelineFutures) = 2
    /\ wf.pipelineFutures[1].state = "ok"
    /\ wf.pipelineFutures[2].state = "failed"
    /\ wf.pipelineProgress[wf.pipelines[2]] = "failed"
    /\ wf.pipelines[1] # wf.pipelines[2]
    /\ wf.pipelineProgress[wf.pipelines[1]] = "completed"
    /\ Collected(wf) = {1}
    /\ wf.pc = "valuation"

DefaultSubstituted == sub.clinicalFailed \/ sub.marketFailed

\* C13 as claimed: whenever the clinical or the market activity of a drug has
\* failed and its default row (phase-table POS, zeroed market) was substituted,
\* the parent does not mark the drug completed in pipeline_progress, so no
\* defaulted row enters the collected analyses of a drug marked completed.
C13_DefaultRowIsFlagged ==
    (sub.pc = "collected" /\ DefaultSubstituted) => sub.progress # "completed"

\* No cache operation has returned an error and no stored bytes were replaced.
Functioning == quota.faults = MaxFaults /\ quota.corruptions = MaxCorruptions
\* The TTL of the namespace of the artifact; the valuation has no namespace,
\* and any TTL it could be given is at least an hour.
Window(kind) == IF WritesCache(kind) THEN TTL(kind) ELSE 1

\* C14 as claimed: with a functioning cache, two collaborator calls that
\* produced an artifact for the same (ticker, kind [, drug]) are at least the
\* TTL apart, whatever retries, worker restarts and concurrent executions there
\* are, for every artifact kind, the valuation and the final report included.
C14_AtMostOneCallWithinTTL ==
    Functioning =>
        \A i, j \in 1..Len(inferred) :
            (i < j /\ inferred[i].kind = inferred[j].kind
                   /\ inferred[i].drug = inferred[j].drug)
                => inferred[j].at - inferred[i].at >= Window(inferred[i].kind)

\* The four activities the cache algorithm is claimed for.
CacheableKinds == {"financials", "pipeline", "clinical", "market"}
\* This step is the one in which an activity execution returns.
Concludes == last'.n # last.n
\* This step is the one in which an activity execution starts.
Begins == quota'.execs < quota.execs
OutcomeKey(o) == CacheKey(o.kind, Ticker, o.drug)
\* What an execution owes the cache when it returns an artifact it has computed.
Overwrites(o) ==
    ~o.setErr => cache'[OutcomeKey(o)] =
                     [bytes |-> jsonMarshal(o.result), exp |-> clock + TTL(o.kind)]

\* C15 as claimed: an execution of a cacheable activity that reads bytes it
\* cannot parse or validate returns no cached value: it calls the collaborator,
\* and when that succeeds it returns the fresh artifact and overwrites the entry.
C15_UnusableBytesAreMiss ==
    [][(Concludes /\ last'.kind \in CacheableKinds /\ last'.found \in UnusableClasses) =>
          /\ ~last'.hit
          /\ last'.llmCalls = 1
          /\ last'.status = "ok" =>
                 /\ last'.result.body \in AnswerBodies
                 /\ Overwrites(last')]_vars

\* The part of C15 that the code keeps: bytes that json.Unmarshal rejects.
UnparseableBytesAreMiss ==
    [][(Concludes /\ last'.kind \in CacheableKinds /\ last'.found = "garbage") =>
          /\ ~last'.hit
          /\ last'.llmCalls = 1
          /\ last'.status = "ok" =>
                 /\ last'.result.body \in AnswerBodies
                 /\ Overwrites(last')]_vars

\* The key of the artifact holds the JSON of an artifact that has not expired
\* (and, for the pipeline scan, is less than 24 h old).
ValidEntry ==
    LET bytes == redisGet(cache, CacheKey(quota.subject.kind, Ticker, quota.subject.drug),
                          clock)
    IN  /\ bytes.class = "artifact"
        /\ Fresh(quota.subject.kind, jsonUnmarshal(bytes).value, clock)

\* C16: an execution of a cacheable activity that starts on a valid entry
\* returns it at once (unless the GET itself fails), as it is stored, with no
\* collaborator call and no cache write; an execution that missed has called
\* the collaborator exactly once when it returns, and when it returns an
\* artifact it has issued the SET of that artifact under the key of its
\* namespace with the TTL of its namespace.
C16_HitOrSingleCall ==
    [][/\ (Begins /\ quota.subject.kind \in CacheableKinds /\ ValidEntry) =>
              \/ Concludes /\ last'.hit
              \/ Len(execs') > Len(execs) /\ execs'[Len(execs')].getErr
       /\ (Concludes /\ last'.kind \in CacheableKinds) =>
              /\ (last'.hit /\ last'.found = "artifact") =>
                     /\ last'.status = "ok"
                     /\ last'.llmCalls = 0
                     /\ last'.result =
                            jsonUnmarshal(redisGet(cache, OutcomeKey(last'), clock)).value
                     /\ inferred' = inferred
                     /\ cache' = cache
              /\ ~last'.hit =>
                     /\ last'.llmCalls = 1
                     /\ last'.status = "ok" =>
                            /\ Overwrites(last')
                            /\ \A key \in Keys \ {OutcomeKey(last')} :
                                   cache'[key] = cache[key]]_vars

C16_Witness ==
    /\ last.n = 2
    /\ last.kind = "clinical"
    /\ last.hit
    /\ last.found = "artifact"
    /\ last.llmCalls = 0
    /\ Len(inferred) = 1
    /\ last.result.body = "a2"
    /\ cache[CacheKey("clinical", Ticker, last.drug)].exp = 1 + TTL("clinical")

\* C17: an execution fails only because the collaborator failed or answered
\* what cannot be parsed; one whose GET returned an error goes on as on a miss
\* and calls the collaborator, and one whose SET returned an error returns the
\* artifact it has computed.
C17_CacheErrorsNeverFail ==
    [][/\ Concludes =>
              /\ last'.status = "failed" =>
                     /\ last'.cause \in {"llm_error", "parse_error"}
                     /\ last'.llmCalls = 1
              /\ last'.getErr => ~last'.hit /\ last'.llmCalls = 1
              /\ last'.setErr =>
                     /\ last'.status = "ok"
                     /\ last'.llmCalls = 1
                     /\ last'.result.body \in AnswerBodies \cup {"garbled"}
                     /\ cache' = cache
       /\ (Begins /\ ~Concludes) =>
              /\ Len(execs') = Len(execs) + 1
              /\ execs'[Len(execs')].pc = "infer"]_vars

C17_Witness ==
    /\ last.setErr
    /\ last.found = "nil"
    /\ last.status = "ok"
    /\ last.kind = "financials"
    /\ last.result.body = "a1"
    /\ cache[CacheKey("financials", Ticker, NoDrug)] = NoEntry

RECURSIVE Uninterrupted(_)
Uninterrupted(h) ==
    IF h = <<>> THEN StartMemory
    ELSE Apply(Uninterrupted(SubSeq(h, 1, Len(h) - 1)), h[Len(h)], h[Len(h)].at)

CrashStep == crashesLeft' < crashesLeft
\* The fan-in is under way: some per-drug analyses have concluded.
MidFanOut(s) ==
    /\ s.pc = "fanIn"
    /\ \E i \in 1..Len(s.pipelineFutures) : s.pipelineFutures[i].state # "running"

QueryStep == queriesLeft' < queriesLeft

\* C21: answering the progress query, at any point of the run and any number
\* of times, leaves current_agent, completed_steps, pipeline_progress, the
\* pause flag and the Saga stack as they are, and schedules nothing.
C21_ProgressQueryPure ==
    [][QueryStep =>
          /\ wf'.currentAgent = wf.currentAgent
          /\ wf'.completedSteps = wf.completedSteps
          /\ wf'.pipelineProgress = wf.pipelineProgress
          /\ isPaused' = isPaused
          /\ saga' = saga
          /\ wf'.dispatched = wf.dispatched
          /\ wf'.running = wf.running
          /\ wf' = wf
          /\ listener' = listener
          /\ hist' = hist]_vars

C21_Witness ==
    /\ queriesLeft = 0
    /\ wf.pc = "waitValuation"
    /\ isPaused
    /\ ProgressInfo(wf).CurrentAgent = "PipelineAnalysis"
    /\ ProgressInfo(wf).TotalSteps = 6

\* Every activity and child workflow of the recorded run has succeeded.
AllSucceeded == \A k \in 1..Len(hist) : hist[k].ok
DistinctDrugs(q) == \A j, k \in 1..Len(q) : j # k => q[j] # q[k]
HappyPathSteps(pipelines) ==
    {Step("FinancialAuditor"), Step("PipelineScout"), Step("ClinicalAggregation"),
     Step("MarketAggregation"), Step("ValuationActuary"), Step("ReportGenerator")}
        \cup {DrugStep(pipelines[i]) : i \in 1..Len(pipelines)}

\* C22: a run in which every activity and child workflow has succeeded, over a
\* pipeline of n distinct drugs, returns an output with n pipeline analyses, a
\* valuation and a report; completed_steps holds FinancialAuditor,
\* PipelineScout, one PipelineAnalysis step per drug, ClinicalAggregation,
\* MarketAggregation, ValuationActuary and ReportGenerator, each once and
\* nothing else; every pipeline_progress entry is completed.
C22_HappyPath ==
    (recording /\ wf.pc = "done" /\ AllSucceeded /\ DistinctDrugs(wf.pipelines)) =>
        /\ wf.result = "output"
        /\ Len(wf.output.PipelineAnalyses) = Len(wf.pipelines)
        /\ {wf.output.PipelineAnalyses[k].drug :
                k \in 1..Len(wf.output.PipelineAnalyses)} = Range(wf.pipelines)
        /\ wf.output.Financial
        /\ wf.output.Pipeline
        /\ wf.output.Valuation
        /\ wf.output.Report
        /\ Range(wf.completedSteps) = HappyPathSteps(wf.pipelines)
        /\ Len(wf.completedSteps) = Len(wf.pipelines) + 6
        /\ DOMAIN wf.pipelineProgress = Range(wf.pipelines)
        /\ \A d \in DOMAIN wf.pipelineProgress : wf.pipelineProgress[d] = "completed"

C22_Witness ==
    /\ recording
    /\ wf.pc = "done"
    /\ AllSucceeded
    /\ wf.pipelines = <<"Y", "X">>
    /\ Len(wf.completedSteps) = 8
    /\ wf.output.Report
    /\ wf.pipelineProgress["X"] = "completed"

\* This step is the ExecuteActivity of the market strategist.
MarketScheduled == Len(sub.scheduled) = 1 /\ Len(sub'.scheduled) = 2
\* This step is the return of the subflow.
SubflowReturns == sub.pc = "market" /\ sub'.pc = "returned" /\ ~sub'.err

\* C23: the subflow schedules the market strategist in the step in which the
\* clinical assessor concludes (with its result or, after its last attempt,
\* with an error) and not before, after the clinical assessor was scheduled;
\* the input of the market strategist holds the clinical assessment that the
\* subflow returns: the result of the activity, or the default row.
C23_ClinicalBeforeMarket ==
    [][/\ MarketScheduled =>
              /\ sub.pc = "clinical"
              /\ sub'.pc = "market"
              /\ sub.scheduled[1].activity = "ClinicalAssessorActivity"
              /\ sub'.scheduled[2].activity = "MarketStrategistActivity"
              /\ sub'.scheduled[2].Pipeline = sub.pipeline
              /\ sub'.scheduled[2].Clinical = sub'.clinical
              /\ sub'.clinicalFailed =>
                     sub'.scheduled[2].Clinical = DefaultClinical(sub.pipeline)
       /\ sub.pc \in {"idle", "clinical"} => Len(sub.scheduled) < 2
       /\ SubflowReturns =>
              /\ Len(sub.scheduled) = 2
              /\ sub'.result.Clinical = sub.scheduled[2].Clinical]_vars

C23_Witness ==
    /\ sub.pc = "returned"
    /\ sub.clinicalFailed
    /\ ~sub.marketFailed
    /\ sub.pipeline.Phase = "Phase2"
    /\ sub.scheduled[2].Clinical.POSScore = 30
    /\ sub.result.Clinical.Rating = "Unknown"

\* The phase table of the specification, in percent.
TablePOS ==
    [p \in Phases |->
        IF p = "Preclinical" THEN 5
        ELSE IF p = "Phase1" THEN 10
        ELSE IF p = "Phase1_2" THEN 15
        ELSE IF p = "Phase2" THEN 30
        ELSE IF p = "Phase2_3" THEN 50
        ELSE IF p = "Phase3" THEN 60
        ELSE IF p = "Approved" THEN 100
        ELSE 20]

\* C24: when the clinical assessor has failed, the clinical assessment of the
\* subflow has rating Unknown and the pos_score of the phase table for the
\* phase of its pipeline, and the market strategist is run all the same, with
\* that assessment.
C24_ClinicalDefault ==
    sub.clinicalFailed =>
        /\ sub.clinical.Rating = "Unknown"
        /\ sub.clinical.POSScore = TablePOS[sub.pipeline.Phase]
        /\ Len(sub.scheduled) = 2
        /\ sub.scheduled[2].activity = "MarketStrategistActivity"
        /\ sub.scheduled[2].Clinical = sub.clinical
        /\ (sub.pc = "returned" /\ ~sub.err) => sub.result.Clinical = sub.clinical

C24_Witness ==
    /\ sub.clinicalFailed
    /\ sub.pipeline.Phase = "Approved"
    /\ sub.clinical.POSScore = 100
    /\ sub.pc = "returned"
    /\ ~sub.marketFailed
    /\ sub.result.Market.TAM = 2

\* The subflow code has run to its return.
SubflowReturned == sub.result # NoResult

\* C25: when the market strategist has failed, the market assessment of the
\* subflow has TAM 0 and risk_adjusted_revenue 0; whatever the outcomes of the
\* two activities, the subflow that has run to its return has returned a
\* result for the pipeline it was given, with the assessments it holds, and no
\* error: the parent sees an error only when the subflow has not returned.
C25_SubflowNeverFails ==
    /\ sub.marketFailed =>
           /\ sub.market.TAM = 0
           /\ sub.market.RiskAdjustedRevenue = 0
    /\ SubflowReturned =>
           /\ sub.pc \in {"returned", "collected"}
           /\ ~sub.err
           /\ sub.result.Pipeline = sub.pipeline
           /\ sub.result.Pipeline.DrugName \in DrugNames
           /\ sub.result.Clinical = sub.clinical
           /\ sub.result.Market = sub.market
    /\ (sub.pc \in {"returned", "collected"} /\ ~SubflowReturned) => sub.err

C25_Witness ==
    /\ SubflowReturned
    /\ sub.clinicalFailed
    /\ sub.marketFailed
    /\ sub.result.Market.TAM = 0
    /\ sub.result.Pipeline.DrugName = "Y"
    /\ sub.pc = "collected"
    /\ Len(sub.analyses) = 1

\* The level the specification's table gives each kind of error.
TableLevel(kind) ==
    CASE kind \in {"timeout", "rate_limited", "cache_unavailable", "llm_unavailable",
                   "tool_failed", "other"} -> L1Recoverable
      [] kind \in {"validation_failed", "hallucination",
                   "business_rule_violation"} -> L2Intervention
      [] kind \in {"config_invalid", "auth_failed", "data_corruption"} -> L3Fatal

\* C26 as claimed: the ClassifiedError that ClassifyError returns for an error
\* has the level of the table for the kind of that error, however the kind is
\* wrapped inside the error.
C26_ClassifyLevels ==
    classified.call = "ClassifyError" =>
        classified.result[1].Level = TableLevel(KindOf(classified.arg))

\* The part of C26 that the code keeps: an error whose kind has a predefined
\* value, wrapped by fmt.Errorf only, is given the level of the table.
ListedKindsClassified ==
    (/\ classified.call = "ClassifyError"
     /\ errorsAs(classified.arg) = <<>>
     /\ KindOf(classified.arg) \notin UnlistedKinds) =>
        classified.result[1].Level = TableLevel(KindOf(classified.arg))

PolicyConsistent(c) ==
    /\ c.Level = L3Fatal => ~c.Retryable
    /\ c.Level = L2Intervention => c.MaxRetries <= 2
    /\ c.Level = L1Recoverable => (c.Retryable /\ c.MaxRetries >= 1 /\ c.MaxRetries <= 5)

\* C27 as claimed: the ClassifiedError returned by ClassifyError or by
\* WrapWithLevel has policy fields consistent with its level: L3 is not
\* retryable, L2 has at most 2 retries, L1 is retryable with 1 to 5 retries.
C27_PolicyConsistent ==
    classified.call # "none" => PolicyConsistent(classified.result[1])

\* The part of C27 that the code keeps: what the switch of ClassifyError
\* builds is consistent.
SwitchPolicyConsistent ==
    (classified.call = "ClassifyError" /\ errorsAs(classified.arg) = <<>>) =>
        PolicyConsistent(classified.result[1])

\* C28 as claimed: an activity failure of a fatal kind (L3) is never followed
\* by another attempt, under the retry policy of each of the three workflows:
\* the activity has run once and has failed; and no activity is attempted
\* more often than the maximum of its policy.
C28_FatalNotRetried ==
    /\ (act.error # <<>> /\ Classify(act.error)[1].Level = L3Fatal) =>
           (act.status = "failed" /\ act.attempts = 1)
    /\ act.workflow # "" => act.attempts <= RetryPolicy(act.workflow).MaximumAttempts

\* The part of C28 that the code keeps: 5, 3 and 3 attempts at most.
AttemptsBounded ==
    /\ act.workflow = "BioValueWorkflow" => act.attempts <= 5
    /\ act.workflow = "PipelineAnalysisWorkflow" => act.attempts <= 3
    /\ act.workflow = "ValuationWorkflow" => act.attempts <= 3

WithinBounds(a, ceiling) ==
    /\ a.WACC >= 8
    /\ a.WACC <= 20
    /\ a.TerminalGrowth <= ceiling

\* C29 as claimed: the valuation recorded in the workflow output has
\* 0.08 <= WACC <= 0.20 and a terminal growth of at most the ceiling, and the
\* valuation activity returns no answer outside these bounds: it fails
\* instead.
C29_ValuationBounds ==
    /\ actuary.status = "recorded" => WithinBounds(actuary.output, actuary.ceiling)
    /\ actuary.status = "returned" => WithinBounds(actuary.result, actuary.ceiling)

FailedSteps(ran) ==
    LET failed(r) == ~r.ok
        f == SelectSeq(ran, failed)
    IN  [i \in 1..Len(f) |-> f[i].name]

\* C30: during Execute the NotifyCompensationFailure activities are, in
\* order, the names of the steps that returned an error, one for each and
\* none for a step that succeeded; and once Execute has returned it has
\* returned success, whatever the number of failed steps and notifications.
C30_SagaNotifiesEachFailure ==
    /\ saga.notified = FailedSteps(saga.ran)
    /\ saga.notifyFailed <= Len(saga.notified)
    /\ SagaFinished => saga.result = "nil"
    /\ ~SagaFinished => saga.result = "none"

C30_Witness ==
    /\ SagaFinished
    /\ Len(saga.ran) = 3
    /\ ~saga.ran[1].ok
    /\ saga.ran[2].ok
    /\ ~saga.ran[3].ok
    /\ saga.notified = <<saga.ran[1].name, saga.ran[3].name>>
    /\ saga.notifyFailed = 2
    /\ saga.result = "nil"

\* How often the workflow has started a call.
Dispatches(call) ==
    Cardinality({i \in 1..Len(wf.dispatched) : wf.dispatched[i] = call})

\* Phase A is over and has left an empty pipeline sequence.
EmptyScan == wf.selected = 2 /\ wf.pipelines = <<>>
BeforeValuation == wf.pc \in {"phaseA", "waitFanOut", "fanIn", "waitValuation"}

\* C31: when the scout has left an empty pipeline sequence no per-drug child
\* is ever started and pipeline_progress stays empty; the valuation child is
\* started once, as soon as the workflow is past its pause boundaries, and at
\* that point both aggregates are empty and total_risk_adjusted_revenue is 0.
C31_EmptyScan ==
    EmptyScan =>
        /\ \A i \in 1..MaxDrugs : Dispatches(PipelineAnalysis(i)) = 0
        /\ DOMAIN wf.pipelineProgress = {}
        /\ Dispatches(Valuation) = IF BeforeValuation THEN 0 ELSE 1
        /\ ~BeforeValuation =>
               /\ wf.clinical.Assessments = <<>>
               /\ wf.market.Assessments = <<>>
               /\ wf.market.TotalRiskAdjustedRevenue = 0

C31_Witness ==
    /\ EmptyScan
    /\ wf.output.Pipeline
    /\ wf.pc = "done"
    /\ wf.output.Valuation
    /\ Dispatches(Valuation) = 1
    /\ wf.market.TotalRiskAdjustedRevenue = 0

LastEvent == hist[Len(hist)]
ReportFailed == hist # <<>> /\ LastEvent.type = "ReportDone" /\ ~LastEvent.ok

\* C32: when the report-generator activity has failed the run has not: the
\* workflow has returned its output with completed_at stamped with the time of
\* that event, without a report and without ReportGenerator among the
\* completed steps, and Saga has not been executed.
C32_ReportFailureTolerated ==
    ReportFailed =>
        /\ wf.pc = "done"
        /\ wf.result = "output"
        /\ wf.output.CompletedAt = LastEvent.at
        /\ wf.output.CompletedAt > 0
        /\ ~wf.output.Report
        /\ Step("ReportGenerator") \notin Range(wf.completedSteps)
        /\ saga.idx = 0
        /\ saga.ran = <<>>

C32_Witness ==
    /\ ReportFailed
    /\ wf.output.Valuation
    /\ Len(saga.steps) = 2
    /\ wf.result = "output"

PipelineKey == CacheKey("pipeline", Ticker, NoDrug)
\* A step in which PipelineScoutActivity starts and its GET answers.
ScoutReads ==
    /\ quota.subject.kind = "pipeline"
    /\ quota'.execs = quota.execs - 1
    /\ quota'.faults = quota.faults
\* A step in which an execution ends with a SET that succeeded.
ScoutStores ==
    /\ quota.subject.kind = "pipeline"
    /\ Len(execs') < Len(execs)
    /\ cache' # cache

\* C33: when the pipeline scan reads a parseable PipelineResult that the cache
\* still holds, it serves it without a collaborator call if its data_as_of is
\* younger than 24 hours, and else goes on as on a miss; the execution that
\* then stores its result has called the collaborator and has overwritten the
\* entry with what it returns.
C33_FreshnessOverride ==
    [][/\ (ScoutReads /\ redisGet(cache, PipelineKey, clock).class = "artifact") =>
              LET cached == redisGet(cache, PipelineKey, clock)
              IN  IF clock - cached.asOf >= 24
                  THEN /\ Len(execs') = Len(execs) + 1
                       /\ last' = last
                       /\ inferred' = inferred
                  ELSE /\ execs' = execs
                       /\ inferred' = inferred
                       /\ last'.n = last.n + 1
                       /\ last'.hit
                       /\ last'.status = "ok"
                       /\ last'.llmCalls = 0
                       /\ last'.result = [body |-> cached.body, asOf |-> cached.asOf]
       /\ ScoutStores =>
              /\ last'.llmCalls = 1
              /\ redisGet(cache', PipelineKey, clock).body = last'.result.body
              /\ redisGet(cache', PipelineKey, clock).asOf = last'.result.asOf
      ]_vars

\* An execution has found a parseable entry that had not expired, has called
\* the collaborator all the same and has stored the new result.
C33_Witness ==
    /\ last.kind = "pipeline"
    /\ last.found = "artifact"
    /\ ~last.getErr
    /\ ~last.hit
    /\ last.status = "ok"
    /\ last.llmCalls = 1
    /\ ~last.setErr
    /\ cache[PipelineKey].bytes.asOf = last.result.asOf
    /\ last.result.asOf >= 25

Children == {PipelineAnalysis(i) : i \in 1..Len(wf.pipelines)}
HasStarted(call) == Dispatches(call) > 0
ConcludedCall(call) == HasStarted(call) /\ call \notin wf.running

\* C34: a per-drug child has been started only when both phase-A activities
\* have concluded; the valuation child only when every per-drug child of the
\* pipeline sequence has been started and has concluded; the report activity
\* only when the valuation child has concluded; and the valuation child, the
\* report activity and each per-drug child have been started at most once.
C34_PhaseOrdering ==
    /\ (\E c \in Children : HasStarted(c)) =>
           ConcludedCall(FinancialAuditor) /\ ConcludedCall(PipelineScout)
    /\ \A i \in 1..MaxDrugs : HasStarted(PipelineAnalysis(i)) => i <= Len(wf.pipelines)
    /\ HasStarted(Valuation) =>
           /\ ConcludedCall(FinancialAuditor) /\ ConcludedCall(PipelineScout)
           /\ \A c \in Children : ConcludedCall(c)
    /\ HasStarted(ReportGenerator) => ConcludedCall(Valuation)
    /\ Dispatches(Valuation) <= 1
    /\ Dispatches(ReportGenerator) <= 1
    /\ \A c \in Children : Dispatches(c) <= 1

C34_Witness ==
    /\ Len(wf.pipelines) = 2
    /\ \A c \in Children : ConcludedCall(c)
    /\ ConcludedCall(Valuation)
    /\ ConcludedCall(ReportGenerator)
    /\ wf.pc = "done"

\* C35 as claimed: at every point of a run the completed steps are at most
\* total_steps and the percentage the progress query returns is within
\* 0..100, whatever the number of drugs.
C35_ProgressWithinBounds ==
    /\ Len(ProgressInfo(wf).CompletedSteps) <= ProgressInfo(wf).TotalSteps
    /\ ProgressInfo(wf).Progress >= 0
    /\ ProgressInfo(wf).Progress <= 100

\* The part of C35 that the code keeps: with two or more pipelines of distinct
\* names the completed steps stay within total_steps once the fan-out has
\* begun.
ProgressWithinBoundsFromTwo ==
    (/\ Len(wf.pipelines) >= 2
     /\ Cardinality(Range(wf.pipelines)) = Len(wf.pipelines)
     /\ wf.pc \notin {"phaseA", "waitFanOut"}) =>
        /\ Len(wf.completedSteps) <= totalSteps(wf)
        /\ progressPercent(wf) <= 100

StatusRank(status) ==
    CASE status = "pending" -> 1
      [] status = "in_progress" -> 2
      [] status \in {"completed", "failed"} -> 3
IsPrefix(p, q) == Len(p) <= Len(q) /\ SubSeq(q, 1, Len(p)) = p
NoRepeat(q) == \A i, j \in 1..Len(q) : q[i] = q[j] => i = j

\* C36 as claimed: in every step each pipeline_progress entry stays or moves
\* forward along pending, in_progress, completed or failed, an entry that is
\* completed or failed stays as it is, and completed_steps is extended at its
\* end and holds no step twice; also when entries of the pipeline sequence
\* share a drug name.
C36_ProgressMonotone ==
    [][/\ \A d \in DOMAIN wf.pipelineProgress :
              /\ d \in DOMAIN wf'.pipelineProgress
              /\ StatusRank(wf'.pipelineProgress[d]) >= StatusRank(wf.pipelineProgress[d])
              /\ wf.pipelineProgress[d] \in {"completed", "failed"} =>
                     wf'.pipelineProgress[d] = wf.pipelineProgress[d]
       /\ IsPrefix(wf.completedSteps, wf'.completedSteps)
       /\ NoRepeat(wf'.completedSteps)]_vars

\* The part of C36 that the code keeps: the same, for pipeline sequences whose
\* drug names are distinct.
ProgressMonotoneDistinct ==
    [][Cardinality(Range(wf'.pipelines)) = Len(wf'.pipelines) =>
           /\ \A d \in DOMAIN wf.pipelineProgress :
                  /\ d \in DOMAIN wf'.pipelineProgress
                  /\ StatusRank(wf'.pipelineProgress[d]) >=
                         StatusRank(wf.pipelineProgress[d])
                  /\ wf.pipelineProgress[d] \in {"completed", "failed"} =>
                         wf'.pipelineProgress[d] = wf.pipelineProgress[d]
           /\ IsPrefix(wf.completedSteps, wf'.completedSteps)
           /\ NoRepeat(wf'.completedSteps)]_vars

\* C38: every activity a workflow has scheduled, the cleanup activity of a
\* compensation and NotifyCompensationFailure included, is of a type the worker
\* registers, so that a handler exists for it.
C38_ScheduledAreRegistered ==
    \A i \in 1..Len(wf.dispatched) : Handled(wf.dispatched[i])

\* The same for the activities scheduled outside Saga.
ScheduledOutsideSagaRegistered ==
    \A i \in 1..Len(wf.dispatched) :
        wf.dispatched[i] \notin {cleanupFinancialData, cleanupPipelineData}
            => Handled(wf.dispatched[i])

ValuationFailedL1 ==
    /\ wf.valuationError \in ValuationErrors
    /\ ClassifyError(wf.valuationError) = L1Recoverable

Outcomes(type) == {hist[k].ok : k \in {j \in 1..Len(hist) : hist[j].type = type}}

\* C40: the compensation of a phase-A activity is on the Saga stack exactly
\* when the activity has succeeded; when the financial auditor or the
\* pipeline scout has failed, its output field stays absent and its step is
\* not among the completed steps, a failed scout leaves no pipeline to fan
\* out, and the workflow goes on: it returns an error only for a valuation
\* error of level L2 or more.
C40_CompensationIffSucceeded ==
    recording =>
        /\ "financial" \in Range(saga.steps) <=> TRUE \in Outcomes("FinancialAuditorDone")
        /\ "pipeline" \in Range(saga.steps) <=> TRUE \in Outcomes("PipelineScoutDone")
        /\ FALSE \in Outcomes("FinancialAuditorDone") =>
               /\ ~wf.output.Financial
               /\ Step("FinancialAuditor") \notin Range(wf.completedSteps)
        /\ FALSE \in Outcomes("PipelineScoutDone") =>
               /\ ~wf.output.Pipeline
               /\ Step("PipelineScout") \notin Range(wf.completedSteps)
               /\ wf.pipelines = <<>>
               /\ \A i \in 1..MaxDrugs : ~HasStarted(PipelineAnalysis(i))
        /\ wf.selected = 2 => wf.pc # "phaseA"
        /\ wf.result = "error" => ValuationFailedAtLeastL2

C40_Witness ==
    /\ recording
    /\ Outcomes("FinancialAuditorDone") = {TRUE}
    /\ Outcomes("PipelineScoutDone") = {FALSE}
    /\ saga.steps = <<"financial">>
    /\ wf.pc = "done"
    /\ wf.result = "output"
    /\ wf.output.Financial
    /\ ~wf.output.Pipeline

KeysFormatted == keyPair.status = "formatted"

\* C37 as claimed: two distinct (ticker, kind [, drug_name]) tuples never have
\* the same cache key, for all tickers and drug names, with or without ':'.
C37_KeysInjective ==
    (KeysFormatted /\ keyPair.a # keyPair.b) => keyPair.keyA # keyPair.keyB

\* The part of C37 that the code keeps: tickers and drug names without ':'.
KeysInjectiveWithoutColon ==
    (/\ KeysFormatted
     /\ keyPair.a # keyPair.b
     /\ Len(keyPair.a.ticker) = 1 /\ Len(keyPair.a.drug) = 1
     /\ Len(keyPair.b.ticker) = 1 /\ Len(keyPair.b.drug) = 1) =>
        keyPair.keyA # keyPair.keyB

FanOutInitialised(s) == s.pc \notin {"phaseA", "waitFanOut"}

\* C20 as claimed: once the fan-out has been initialised the progress query
\* reports total_steps = 4 + 2 x the number of entries of
\* PipelineResult.Pipelines, and total_steps never decreases during a run.
C20_TotalSteps ==
    [][/\ FanOutInitialised(wf') => totalSteps(wf') = 4 + 2 * Len(wf'.pipelines)
       /\ totalSteps(wf') >= totalSteps(wf)]_vars

\* The part of C20 that the code keeps: total_steps never decreases.
TotalStepsMonotone == [][totalSteps(wf') >= totalSteps(wf)]_vars

====
